---- MODULE Spec2Model ----
(***************************************************************************)
(* The stochastic channel relay of tun-python: the request processor       *)
(* (channel_request/request_processor.py) and the response processor       *)
(* (channel_response/response_processor.py), each one consume loop on a    *)
(* RabbitMQ session plus the timer threads it starts, together with the    *)
(* part of the broker they talk to.                                        *)
(*                                                                         *)
(* The two processors are separate programs; `proc` says which one a       *)
(* behaviour runs.  Variables named after fields of the code are the       *)
(* program's state; `hist` is a history variable that records, for every   *)
(* delivery the broker made, what happened to it.                          *)
(***************************************************************************)
EXTENDS Integers, Sequences, FiniteSets, TLC

(* ------------------------------ bounds -------------------------------- *)

\* packets in the inbound queue when the processor starts
MaxPackets == 3
\* calls of update_channel_yaml_safe in one run
MaxUpdates == 1
\* consuming sessions one run may open (the first one plus the reconnects)
MaxSessions == 2
\* messages container_b fetches in one run
MaxFetches == 3
\* passes of container_b's wait for the reply (the code waits 2 s in
\* selects of 0.5 s)
MaxSelects == 2
\* deliveries the broker makes to the processor in one run
MaxDeliveries == 4
\* retry.max_retries of the configuration (the code's default is 5)
max_retries == 1
\* the prefetch limit of the reply channel's consumer (the code sets 50 with
\* basic_qos in ResponseProcessor.start)
prefetch_count == 2

(* --------------------------- program constants ------------------------ *)

REQUEST_QUEUE == "network_request"
REPLY_QUEUE == "network_reply"
REQUEST_QUEUE_AFTER_CHANNEL == "network_request_after_channel"
REPLY_QUEUE_AFTER_CHANNEL == "network_reply_after_channel"
QueueNames ==
    {REQUEST_QUEUE, REPLY_QUEUE, REQUEST_QUEUE_AFTER_CHANNEL, REPLY_QUEUE_AFTER_CHANNEL}

\* retry.base_delay and retry.jitter: the defaults of ResponseProcessor.__init__
base_delay == 1000
retry_jitter == 500

Procs == {"request", "reply"}

\* the queue a processor consumes from, and the one it forwards to
InboundQueue(p) == IF p = "request" THEN REQUEST_QUEUE ELSE REPLY_QUEUE
OutboundQueue(p) ==
    IF p = "request" THEN REQUEST_QUEUE_AFTER_CHANNEL ELSE REPLY_QUEUE_AFTER_CHANNEL

(* ------------------------------ messages ------------------------------ *)

\* properties.headers: None, or a dict.  Of the dict the model keeps the
\* 'x-retries' entry (Absent when the key is missing) and, as `rest`, the
\* other entries taken together.
Absent == -1
NoneHeaders == [none |-> TRUE, retries |-> Absent, rest |-> 0]
EmptyDict == [none |-> FALSE, retries |-> Absent, rest |-> 0]

\* properties.headers = properties.headers or {}
HeadersOrEmpty(h) == IF h.none THEN EmptyDict ELSE h

\* properties.headers.get('x-retries', 0)
GetRetries(h) == IF h.retries = Absent THEN 0 ELSE h.retries

\* a variant that writes the counter back without the increment
WithRetries_same(h, r) == [none |-> FALSE, retries |-> r - 1, rest |-> h.rest]

\* {**properties.headers, 'x-retries': retries + 1}
WithRetries(h, r) == [none |-> FALSE, retries |-> r, rest |-> h.rest]

\* What basic_publish sends: an opaque body and the headers.
Message(b, h) == [body |-> b, headers |-> h]

\* A message as the broker holds it in an inbound queue.  origin is not part
\* of the message: it tells the broker's messages apart, <<0, i>> for the
\* i-th message of the initial batch and the key of the delivery whose
\* retry path published it for a resubmitted copy.
Stored(m, o) == [body |-> m.body, headers |-> m.headers, origin |-> o]

(* --------------------------- random draws ----------------------------- *)

\* A draw of random.random() or of random.uniform is a fraction k / Den of
\* its range, k in 0..Den.
Den == 1
Fractions == 0..Den

\* random.uniform(a, b), at fraction k / Den of the range
Uniform(a, b, k) == a + ((b - a) * k) \div Den

\* random.random(), as a percentage in [0, 100)
UDraws == {0, 50}

\* values np.random.exponential and np.random.normal may return (ms)
ExpDraws == {0, 15, 40}
NormalDraws == {-5, 15, 40}

Max(a, b) == IF a >= b THEN a ELSE b
Min(a, b) == IF a <= b THEN a ELSE b

(* --------------------------- configuration ---------------------------- *)

\* the bit_flip mask the channel sections carry ("0x0001")
bit_flip == 1

\* One channel section of channel.yml.  Delays are in ms, drop_probability
\* is a percentage.
ChannelSection(dtype, lo, hi, jit, drop, a, b) ==
    [min_delay |-> lo, max_delay |-> hi, jitter |-> jit, drop_probability |-> drop,
     bit_flip |-> bit_flip,
     distribution |->
        [type |-> dtype,
         parameters |-> [lambda |-> 15, mu |-> 15, sigma |-> 5,
                         min_delay |-> a, max_delay |-> b]]]

\* a section whose distribution parameters repeat the channel's range
ChannelParams(dtype, lo, hi, jit, drop) == ChannelSection(dtype, lo, hi, jit, drop, lo, hi)

\* channel.yml as yaml.safe_load returns it; ok = FALSE stands for a file
\* that is missing, unparseable or lacks the channel section.
GoodDoc ==
    [ok |-> TRUE,
     request_channel |-> ChannelParams("uniform", 10, 20, 0, 50),
     reply_channel |-> ChannelParams("uniform", 10, 20, 0, 50)]
BadDoc == [GoodDoc EXCEPT !.ok = FALSE]
ConfigDocs == {GoodDoc, BadDoc}

\* The parameter sets the control programs can write into channel.yml:
\* every distribution type (one the code does not know included), a range
\* and a single-point range, jitter absent or wider than the range, drop
\* probability 0, 1/2 and 1, and distribution parameters that repeat the
\* channel's range or narrow it.
DistTypes == {"exponential", "normal", "uniform", "triangular"}
Ranges == {<<10, 20>>, <<15, 15>>}
Jitters == {0, 30}
DropProbabilities == {0, 50, 100}
ChannelSections ==
    UNION {{ChannelSection(dtype, r[1], r[2], jit, drop, r[1], r[2]) :
               dtype \in DistTypes, jit \in Jitters, drop \in DropProbabilities}
           \cup {ChannelSection("uniform", r[1], r[2], jit, drop, 12, 18) :
                    jit \in Jitters, drop \in DropProbabilities} : r \in Ranges}
ChannelDocs ==
    {[ok |-> TRUE, request_channel |-> p, reply_channel |-> p] : p \in ChannelSections}

(* --------------------------- channel.yml on disk ---------------------- *)

\* The text of channel.yml is a sequence of characters.  A key is one
\* character of the model, a number is written digit by digit, and a line
\* ends with "nl"; a section header is a line of its name alone.
DigitChars == <<"0", "1", "2", "3", "4", "5", "6", "7", "8", "9">>
IsDigit(c) == \E i \in 1..10 : DigitChars[i] = c
DigitValue(c) == (CHOOSE i \in 1..10 : DigitChars[i] = c) - 1

RECURSIVE Digits(_)
Digits(n) == IF n < 10 THEN <<DigitChars[n + 1]>>
             ELSE Digits(n \div 10) \o <<DigitChars[(n % 10) + 1]>>

RECURSIVE Number(_)
Number(s) == IF s = <<>> THEN 0
             ELSE 10 * Number(SubSeq(s, 1, Len(s) - 1)) + DigitValue(s[Len(s)])

SectionNames == {"request_channel", "reply_channel", "retry"}
ChannelFields ==
    <<"min_delay", "max_delay", "jitter", "bit_flip", "drop_probability",
      "type", "lambda", "mu", "sigma", "parameters.min_delay", "parameters.max_delay">>
FieldNames == {ChannelFields[i] : i \in 1..Len(ChannelFields)} \cup {"max_retries"}

\* a document with the two channel sections and, unless r is Absent, a
\* retry section with max_retries r
Document(req, rep, r) ==
    [ok |-> TRUE, request_channel |-> req, reply_channel |-> rep, retry |-> r]

\* what a reader gets that cannot use the file
Unreadable == [Document(GoodDoc.request_channel, GoodDoc.reply_channel, Absent)
                  EXCEPT !.ok = FALSE]

Line(k, v) == <<k>> \o Digits(v) \o <<"nl">>

SectionText(name, s) ==
    <<name, "nl">>
    \o Line("min_delay", s.min_delay) \o Line("max_delay", s.max_delay)
    \o Line("jitter", s.jitter) \o Line("bit_flip", s.bit_flip)
    \o Line("drop_probability", s.drop_probability)
    \o <<"type", s.distribution.type, "nl">>
    \o Line("lambda", s.distribution.parameters.lambda)
    \o Line("mu", s.distribution.parameters.mu)
    \o Line("sigma", s.distribution.parameters.sigma)
    \o Line("parameters.min_delay", s.distribution.parameters.min_delay)
    \o Line("parameters.max_delay", s.distribution.parameters.max_delay)

\* yaml.dump(data, sort_keys=False, ...): the keys in the order of the dict
Dump(doc) ==
    SectionText("request_channel", doc.request_channel)
    \o SectionText("reply_channel", doc.reply_channel)
    \o (IF doc.retry = Absent THEN <<>>
        ELSE <<"retry", "nl">> \o Line("max_retries", doc.retry))

\* The scanner of yaml.load.  The text falls into lines at every "nl" (a
\* last line without one counts as a line); a line is named by the position
\* of its end.
MaxOf(S) == CHOOSE x \in S : \A y \in S : y <= x

LineEnds(text) ==
    {i \in 1..Len(text) : text[i] = "nl"}
    \cup (IF text # <<>> /\ text[Len(text)] # "nl" THEN {Len(text) + 1} ELSE {})

IsBlank(l) == l = <<>>
IsHeader(l) == Len(l) = 1 /\ l[1] \in SectionNames
IsField(l) ==
    /\ Len(l) >= 2
    /\ l[1] \in FieldNames
    /\ IF l[1] = "type"
       THEN Len(l) = 2 /\ ~IsDigit(l[2]) /\ l[2] \notin SectionNames \cup FieldNames
       ELSE \A i \in 2..Len(l) : IsDigit(l[i])

FieldValue(l) == IF l[1] = "type" THEN l[2] ELSE Number(Tail(l))

\* the lines of a text whose lines end at `ends`
Lines(text, ends) ==
    [e \in ends |-> SubSeq(text, 1 + MaxOf({0} \cup {j \in ends : j < e}), e - 1)]

\* the section each line is in: the one of the last header line before it
Sections(line, headers) ==
    [e \in DOMAIN line |->
        IF {h \in headers : h < e} = {} THEN ""
        ELSE line[MaxOf({h \in headers : h < e})][1]]

\* the lines that set the field k of section sec
FieldLines(line, section, sec, k) ==
    {e \in DOMAIN line : IsField(line[e]) /\ section[e] = sec /\ line[e][1] = k}

\* What the scan yields: ok, unless a line is none of blank, header and
\* field or a field comes before every header, and the fields set (a key
\* given twice keeps the later value).
Scanned(line, section) ==
    [ok |-> \A e \in DOMAIN line :
               \/ IsBlank(line[e])
               \/ IsHeader(line[e])
               \/ IsField(line[e]) /\ section[e] # "",
     fields |->
        [f \in {g \in SectionNames \X FieldNames :
                    FieldLines(line, section, g[1], g[2]) # {}}
            |-> FieldValue(line[MaxOf(FieldLines(line, section, f[1], f[2]))])]]

Scan(text) ==
    CHOOSE st \in UNION {{Scanned(line, section) :
                             section \in {Sections(line, {h \in DOMAIN line : IsHeader(line[h])})}} :
                         line \in {Lines(text, LineEnds(text))}} : TRUE

\* the channel section `name` of the scanned fields
SectionOf(fields, name) ==
    [min_delay |-> fields[<<name, "min_delay">>],
     max_delay |-> fields[<<name, "max_delay">>],
     jitter |-> fields[<<name, "jitter">>],
     drop_probability |-> fields[<<name, "drop_probability">>],
     bit_flip |-> fields[<<name, "bit_flip">>],
     distribution |->
        [type |-> fields[<<name, "type">>],
         parameters |-> [lambda |-> fields[<<name, "lambda">>],
                         mu |-> fields[<<name, "mu">>],
                         sigma |-> fields[<<name, "sigma">>],
                         min_delay |-> fields[<<name, "parameters.min_delay">>],
                         max_delay |-> fields[<<name, "parameters.max_delay">>]]]]

\* the scanned text is a mapping with both channel sections complete
Complete(st) ==
    /\ st.ok
    /\ \A name \in {"request_channel", "reply_channel"} :
          \A i \in 1..Len(ChannelFields) : <<name, ChannelFields[i]>> \in DOMAIN st.fields

\* yaml.safe_load(f) of a file with the text `text`, as far as its readers
\* can use the result: a text that does not parse, whose root is not a
\* mapping or that lacks a field the readers look up is Unreadable.
Load(text) ==
    LET st == Scan(text)
    IN  IF Complete(st)
        THEN Document(SectionOf(st.fields, "request_channel"),
                      SectionOf(st.fields, "reply_channel"),
                      IF <<"retry", "max_retries">> \in DOMAIN st.fields
                      THEN st.fields[<<"retry", "max_retries">>] ELSE Absent)
        ELSE Unreadable

(* ----------------------- update_channel_yaml_safe -------------------- *)

\* One channel of a payload of start_simulation: `given` holds the keys the
\* payload has, the other fields their values.
NoFields ==
    [given |-> {}, min_delay_ms |-> 0, max_delay_ms |-> 0, jitter_ms |-> 0,
     bit_flip |-> 0, drop_probability |-> 0, distribution |-> "",
     lambda |-> 0, exp_lambda |-> 0, uni_min_ms |-> 0, uni_max_ms |-> 0]

\* the channel payloads the control panel sends
ChannelPayloads ==
    {NoFields,
     [NoFields EXCEPT !.given = {"drop_probability"}, !.drop_probability = 0],
     [NoFields EXCEPT !.given = {"drop_probability"}, !.drop_probability = 100],
     [NoFields EXCEPT !.given = {"min_delay_ms", "max_delay_ms", "jitter_ms"},
                      !.min_delay_ms = 5, !.max_delay_ms = 100, !.jitter_ms = 30],
     [NoFields EXCEPT !.given = {"min_delay_ms", "max_delay_ms", "jitter_ms", "bit_flip",
                                 "drop_probability", "distribution",
                                 "uni_min_ms", "uni_max_ms"},
                      !.min_delay_ms = 5, !.max_delay_ms = 9, !.bit_flip = 65538,
                      !.distribution = "Uniform", !.uni_min_ms = 6, !.uni_max_ms = 8],
     [NoFields EXCEPT !.given = {"distribution", "exp_lambda"},
                      !.distribution = "exponential", !.exp_lambda = 7],
     [NoFields EXCEPT !.given = {"distribution"}, !.distribution = "normal"],
     [NoFields EXCEPT !.given = {"lambda", "uni_min_ms"}, !.lambda = 7, !.uni_min_ms = 1]}

\* payload.get("request_channel", {}) and payload.get("reply_channel", {})
Payloads ==
    {[request_channel |-> a, reply_channel |-> b] :
        a \in ChannelPayloads, b \in {NoFields}}
    \cup {[request_channel |-> a, reply_channel |-> b] :
        a \in {NoFields}, b \in ChannelPayloads}
    \cup {[request_channel |-> a, reply_channel |-> a] : a \in ChannelPayloads}

\* str(ch["distribution"]).lower()
Lower(s) == IF s = "Uniform" THEN "uniform" ELSE s

\* _hex4: the value masked to 16 bits
Hex4(n) == n % 65536

\* a variant that writes the defaults of a new section into every field the
\* payload does not give
update_channel_resets(dst, ch) ==
    [min_delay |-> IF "min_delay_ms" \in ch.given THEN ch.min_delay_ms ELSE 0,
     max_delay |-> IF "max_delay_ms" \in ch.given THEN ch.max_delay_ms ELSE 0,
     jitter |-> IF "jitter_ms" \in ch.given THEN ch.jitter_ms ELSE 0,
     bit_flip |-> IF "bit_flip" \in ch.given THEN Hex4(ch.bit_flip) ELSE 0,
     drop_probability |->
        IF "drop_probability" \in ch.given THEN ch.drop_probability ELSE 0,
     distribution |-> dst.distribution]

\* _update_channel(dst, ch)
update_channel(dst, ch) ==
    LET s1 == IF "min_delay_ms" \in ch.given
              THEN [dst EXCEPT !.min_delay = ch.min_delay_ms] ELSE dst
        s2 == IF "max_delay_ms" \in ch.given
              THEN [s1 EXCEPT !.max_delay = ch.max_delay_ms] ELSE s1
        s3 == IF "jitter_ms" \in ch.given
              THEN [s2 EXCEPT !.jitter = ch.jitter_ms] ELSE s2
        s4 == IF "bit_flip" \in ch.given
              THEN [s3 EXCEPT !.bit_flip = Hex4(ch.bit_flip)] ELSE s3
        s5 == IF "drop_probability" \in ch.given
              THEN [s4 EXCEPT !.drop_probability = ch.drop_probability] ELSE s4
        d_type == Lower(ch.distribution)
        params == s5.distribution.parameters
        lam_given == "lambda" \in ch.given \/ "exp_lambda" \in ch.given
        lam == IF "lambda" \in ch.given THEN ch.lambda ELSE ch.exp_lambda
        p1 == IF d_type = "exponential" /\ lam_given
              THEN [params EXCEPT !.lambda = lam] ELSE params
        p2 == IF d_type = "uniform" /\ "uni_min_ms" \in ch.given
              THEN [p1 EXCEPT !.min_delay = ch.uni_min_ms] ELSE p1
        p3 == IF d_type = "uniform" /\ "uni_max_ms" \in ch.given
              THEN [p2 EXCEPT !.max_delay = ch.uni_max_ms] ELSE p2
    IN  IF "distribution" \in ch.given
        THEN [s5 EXCEPT !.distribution = [type |-> d_type, parameters |-> p3]]
        ELSE s5

\* data after the two _update_channel calls
Updated(data, payload) ==
    [data EXCEPT !.request_channel = update_channel(@, payload.request_channel),
                 !.reply_channel = update_channel(@, payload.reply_channel)]

\* the retry section ResponseProcessor.__init__ takes when channel.yml has
\* none: config.get('retry', {...}), with max_retries at the model's bound
DefaultRetryConfig ==
    [max_retries |-> max_retries, base_delay |-> base_delay, jitter |-> retry_jitter]

(* ------------------------------ DelayModel ---------------------------- *)

\* a variant that returns the jittered draw without clamping it
request_calculate_delay_unclamped(params, raw, f, g) ==
    LET dist_type == params.distribution.type
        delay == IF dist_type \in {"exponential", "normal"} THEN raw
                 ELSE IF dist_type = "uniform"
                      THEN Uniform(params.min_delay, params.max_delay, f)
                      ELSE Uniform(0, params.max_delay, f)
    IN  delay + Uniform(-params.jitter, params.jitter, g)

\* RequestProcessor._calculate_delay: raw is the numpy draw, f the fraction
\* of the uniform draw, g the fraction of the jitter draw.
request_calculate_delay(params, raw, f, g) ==
    LET dist_type == params.distribution.type
        delay == IF dist_type \in {"exponential", "normal"} THEN raw
                 ELSE IF dist_type = "uniform"
                      THEN Uniform(params.min_delay, params.max_delay, f)
                      ELSE Uniform(0, params.max_delay, f)
        jittered == delay + Uniform(-params.jitter, params.jitter, g)
    IN  Max(params.min_delay, Min(jittered, params.max_delay))

\* ResponseProcessor._calculate_delay, on self.config
response_calculate_delay(config, raw, f, g) ==
    LET dist_type == config.distribution.type
        dist_params == config.distribution.parameters
        delay == IF dist_type \in {"exponential", "normal"} THEN raw
                 ELSE IF dist_type = "uniform"
                      THEN Uniform(dist_params.min_delay, dist_params.max_delay, f)
                      ELSE Uniform(0, config.max_delay, f)
        jittered == delay + Uniform(-config.jitter, config.jitter, g)
    IN  Max(config.min_delay, Min(jittered, config.max_delay))

\* the numpy draws a distribution type can produce
RawDraws(dtype) ==
    IF dtype = "exponential" THEN ExpDraws
    ELSE IF dtype = "normal" THEN NormalDraws ELSE {0}

(* ------------------------------- state -------------------------------- *)

VARIABLES
    proc,         \* which processor this run is: "request" or "reply"
    channel_yml,  \* channel.yml as the processor found it when it last read it
    pc,           \* the consume loop: "start", "loop" or "terminated"
    sess,         \* number of the consuming session (connection and channel)
    chan_open,    \* the consuming channel has not been closed by the broker
    next_tag,     \* the delivery tag the broker gives the channel's next delivery
    queues,       \* the broker's queues: the messages ready in each
    unacked,      \* broker: deliveries of the consuming channel not yet acknowledged
    buffer,       \* deliveries received and not yet dispatched to the callback
    ack_queue,    \* self.ack_queue
    timers,       \* the threading.Timer threads started and not yet run
    hist,         \* history: every delivery of the run and what happened to it
    file,         \* the text of channel.yml on disk (followed in FileSpec)
    upd,          \* update_channel_yaml_safe: where a call of it stands
    retry_config, \* self.retry_config of the response processor
    tunnel        \* container_b's TunnelManager and the broker as it sees it

vars ==
    <<proc, channel_yml, pc, sess, chan_open, next_tag, queues, unacked, buffer,
      ack_queue, timers, hist, file, upd, retry_config, tunnel>>

\* the value of `tunnel` in the specifications that do not follow
\* container_b
NotStarted == <<>>

\* no call of update_channel_yaml_safe is running; n calls have been made
NoCall(n) == [pc |-> "idle", n |-> n]

\* the value of `file` in the specifications that do not follow the text of
\* channel.yml: there the document a callback finds is drawn from a set
NotFollowed == <<>>

\* An AckTicket is the delivery tag; from_sess only records which session's
\* delivery it was put for, and no action reads it.
Ticket(t, s) == [tag |-> t, from_sess |-> s]

Key(s, t) == <<s, t>>

\* hist of a delivery the broker has just made
NewDelivery(m) ==
    [msg |-> m, fate |-> "buffered", retry |-> "none", tickets |-> 0, acks |-> 0,
     draw |-> Absent]

\* The headers the i-th packet of the batch carries: none at all for the
\* first, as the tun reader and the tun writer publish, and a dict with
\* entries of its own and no retry counter for the others, as any other
\* client of the broker may publish.
ProducerHeaders(i) ==
    IF i = 1 THEN NoneHeaders ELSE [none |-> FALSE, retries |-> Absent, rest |-> i]

\* n packets an upstream producer has published before the processor starts
Batch(n) == [i \in 1..n |-> Stored(Message(i, ProducerHeaders(i)), <<0, i>>)]

\* main.py loads channel.yml and constructs the processor: a document that
\* cannot be read ends the program before the processor exists.
Init ==
    /\ proc \in Procs
    /\ channel_yml = GoodDoc
    /\ pc = "start"
    /\ sess = 1
    /\ chan_open = TRUE
    /\ next_tag = 1
    /\ \E n \in 1..MaxPackets :
         queues = [q \in QueueNames |-> IF q = InboundQueue(proc) THEN Batch(n) ELSE <<>>]
    /\ unacked = <<>>
    /\ buffer = <<>>
    /\ ack_queue = <<>>
    /\ timers = {}
    /\ hist = <<>>
    /\ file = NotFollowed
    /\ upd = NoCall(0)
    /\ retry_config = DefaultRetryConfig
    /\ tunnel = NotStarted

(* ------------------------------- broker ------------------------------- *)

\* The messages of the unacknowledged deliveries, in delivery order.
UnackedMessages == [i \in 1..Len(unacked) |-> unacked[i].msg]

\* The queues after the consuming channel or connection has gone: the broker
\* puts the unacknowledged messages back at the head of the inbound queue.
Requeued == [queues EXCEPT ![InboundQueue(proc)] = UnackedMessages \o @]

UnackedTags == {unacked[i].tag : i \in 1..Len(unacked)}

\* unacked without the delivery of tag t
RemoveTag(t) == SelectSeq(unacked, LAMBDA d : d.tag # t)

\* The broker pushes the next ready message to the consumer (basic.deliver).
broker_deliver ==
    /\ pc = "loop"
    /\ chan_open
    /\ queues[InboundQueue(proc)] # <<>>
    /\ proc = "reply" => Len(unacked) < prefetch_count
    /\ Cardinality(DOMAIN hist) < MaxDeliveries
    /\ LET m == Head(queues[InboundQueue(proc)])
           d == [tag |-> next_tag, msg |-> m]
       IN  /\ queues' = [queues EXCEPT ![InboundQueue(proc)] = Tail(@)]
           /\ unacked' = Append(unacked, d)
           /\ buffer' = Append(buffer, d)
           /\ next_tag' = next_tag + 1
           /\ hist' = (Key(sess, next_tag) :> NewDelivery(m)) @@ hist
    /\ UNCHANGED <<tunnel, retry_config, file, upd, proc, channel_yml, pc, sess, chan_open, ack_queue, timers>>

\* The consuming connection goes away: the broker requeues what the channel
\* had not acknowledged, and what the client had buffered is lost with it.
SessionClosed ==
    /\ queues' = Requeued
    /\ unacked' = <<>>
    /\ buffer' = <<>>

(* ---------------------------- consume loop ---------------------------- *)

\* ResponseProcessor._reconnect, then back to the top of start()'s outer
\* loop: the old connection is closed and _init_connection opens a new one
\* and redeclares the queues.  _init_connection raising (the broker cannot
\* be reached) leaves start() through the handler and ends the program.
reconnect ==
    /\ SessionClosed
    /\ \/ /\ sess < MaxSessions
          /\ sess' = sess + 1
          /\ chan_open' = TRUE
          /\ next_tag' = 1
          /\ pc' = "start"
       \/ /\ pc' = "terminated"
          /\ chan_open' = FALSE
          /\ UNCHANGED <<sess, next_tag>>

\* An exception leaves RequestProcessor.start: its `with` closes the
\* connection and nothing in main.py catches it, so the consume loop ends.
request_terminate ==
    /\ SessionClosed
    /\ pc' = "terminated"
    /\ chan_open' = FALSE
    /\ UNCHANGED <<sess, next_tag>>

\* An exception raised inside the inner loop of start(): a pika error from
\* basic_ack or process_data_events, or one a callback raised.
raise_in_loop == IF proc = "request" THEN request_terminate ELSE reconnect

\* start() up to the inner loop: (queue_declare,) basic_qos, basic_consume.
start_consume ==
    /\ pc = "start"
    /\ pc' = "loop"
    /\ UNCHANGED <<tunnel, retry_config, file, upd, proc, channel_yml, sess, chan_open, next_tag, queues,
                   unacked, buffer, ack_queue, timers, hist>>

\* hist after basic_ack(t) has been issued on the current session
Acked(t) ==
    IF Key(sess, t) \in DOMAIN hist
    THEN [hist EXCEPT ![Key(sess, t)].acks = @ + 1]
    ELSE hist

\* a variant that takes the ticket put last instead of the one put first
drain_ack_newest_first ==
    /\ pc = "loop"
    /\ ack_queue # <<>>
    /\ ack_queue' = SubSeq(ack_queue, 1, Len(ack_queue) - 1)
    /\ LET t == ack_queue[Len(ack_queue)].tag
       IN  \/ \* the broker knows the tag: the delivery is settled
              /\ chan_open
              /\ t \in UnackedTags
              /\ unacked' = RemoveTag(t)
              /\ hist' = Acked(t)
              /\ UNCHANGED <<pc, sess, chan_open, next_tag, queues, buffer>>
           \/ \* unknown delivery tag: the broker closes the channel
              \* (PRECONDITION_FAILED) and requeues what it had not settled
              /\ chan_open
              /\ t \notin UnackedTags
              /\ chan_open' = FALSE
              /\ SessionClosed
              /\ hist' = Acked(t)
              /\ UNCHANGED <<pc, sess, next_tag>>
           \/ \* the channel is closed: basic_ack raises AMQPChannelError
              /\ ~chan_open
              /\ raise_in_loop
              /\ UNCHANGED hist
    /\ UNCHANGED <<tunnel, retry_config, file, upd, proc, channel_yml, timers>>

\* One pass of the inner loop with a ticket waiting:
\*   delivery_tag = self.ack_queue.get_nowait(); channel.basic_ack(delivery_tag)
drain_ack ==
    /\ pc = "loop"
    /\ ack_queue # <<>>
    /\ ack_queue' = Tail(ack_queue)
    /\ LET t == Head(ack_queue).tag
       IN  \/ \* the broker knows the tag: the delivery is settled
              /\ chan_open
              /\ t \in UnackedTags
              /\ unacked' = RemoveTag(t)
              /\ hist' = Acked(t)
              /\ UNCHANGED <<pc, sess, chan_open, next_tag, queues, buffer>>
           \/ \* unknown delivery tag: the broker closes the channel
              \* (PRECONDITION_FAILED) and requeues what it had not settled
              /\ chan_open
              /\ t \notin UnackedTags
              /\ chan_open' = FALSE
              /\ SessionClosed
              /\ hist' = Acked(t)
              /\ UNCHANGED <<pc, sess, next_tag>>
           \/ \* the channel is closed: basic_ack raises AMQPChannelError
              /\ ~chan_open
              /\ raise_in_loop
              /\ UNCHANGED hist
    /\ UNCHANGED <<tunnel, retry_config, file, upd, proc, channel_yml, timers>>

(* ------------------------------ callbacks ----------------------------- *)

Timer(kind, s, t, m, r, delay) ==
    [kind |-> kind, sess |-> s, tag |-> t, msg |-> m, retries |-> r, delay |-> delay]

SetFate(d, f) == [hist EXCEPT ![Key(sess, d.tag)].fate = f]

\* hist of a delivery that met the drop gate with the draw u
Drawn(d, f, u) == [hist EXCEPT ![Key(sess, d.tag)].fate = f,
                               ![Key(sess, d.tag)].draw = u]

\* the distribution type of a section whose distribution mapping, or its
\* 'type' or 'parameters' key, is missing
Unset == "<unset>"

\* a variant of the gate that also drops on a draw equal to the probability
DropGate_le(u, drop_probability) == u <= drop_probability

\* random.random() < params['drop_probability']
DropGate(u, drop_probability) == u < drop_probability

\* a variant that works with the parameters read for an earlier packet (or
\* at start-up) instead of the document just read
process_packet_cached(d) ==
    /\ LET params == channel_yml.request_channel
       IN  \E u \in UDraws :
             \/ /\ DropGate(u, params.drop_probability)
                /\ hist' = Drawn(d, "dropped", u)
                /\ UNCHANGED timers
             \/ /\ ~DropGate(u, params.drop_probability)
                /\ params.distribution.type # Unset
                /\ \E raw \in RawDraws(params.distribution.type), f, g \in Fractions :
                     timers' = timers \cup
                        {Timer("forward", sess, d.tag, d.msg, 0,
                               request_calculate_delay(params, raw, f, g))}
                /\ hist' = Drawn(d, "waiting", u)

\* a variant that takes the parameters of the reply channel's section
process_packet_reads_reply(d) ==
    /\ LET params == channel_yml'.reply_channel
       IN  \E u \in UDraws :
             \/ /\ DropGate(u, params.drop_probability)
                /\ hist' = Drawn(d, "dropped", u)
                /\ UNCHANGED timers
             \/ /\ ~DropGate(u, params.drop_probability)
                /\ params.distribution.type # Unset
                /\ \E raw \in RawDraws(params.distribution.type), f, g \in Fractions :
                     timers' = timers \cup
                        {Timer("forward", sess, d.tag, d.msg, 0,
                               request_calculate_delay(params, raw, f, g))}
                /\ hist' = Drawn(d, "waiting", u)

\* RequestProcessor._process_packet(ch, method, properties, body) once
\* channel.yml has been read: the drop gate, then the delay and the timer.
process_packet(d) ==
    /\ LET params == channel_yml'.request_channel
       IN  \E u \in UDraws :
             \/ /\ DropGate(u, params.drop_probability)
                /\ hist' = Drawn(d, "dropped", u)
                /\ UNCHANGED timers
             \/ /\ ~DropGate(u, params.drop_probability)
                /\ params.distribution.type # Unset
                /\ \E raw \in RawDraws(params.distribution.type), f, g \in Fractions :
                     timers' = timers \cup
                        {Timer("forward", sess, d.tag, d.msg, 0,
                               request_calculate_delay(params, raw, f, g))}
                /\ hist' = Drawn(d, "waiting", u)

\* ResponseProcessor._process_message(ch, method, properties, body) once
\* channel.yml has been read.
process_message(d) ==
    LET config == channel_yml'.reply_channel
    IN  \E u \in UDraws :
          \/ /\ DropGate(u, config.drop_probability)
             /\ hist' = Drawn(d, "dropped", u)
             /\ UNCHANGED timers
          \/ /\ ~DropGate(u, config.drop_probability)
             /\ config.distribution.type # Unset
             /\ \E raw \in RawDraws(config.distribution.type), f, g \in Fractions :
                  timers' = timers \cup
                     {Timer("forward", sess, d.tag, d.msg, 0,
                            response_calculate_delay(config, raw, f, g))}
             /\ hist' = Drawn(d, "waiting", u)

on_message_callback(d) ==
    IF proc = "request" THEN process_packet(d) ELSE process_message(d)

\* _calculate_delay raises KeyError: the packet has passed the drop gate and
\* params['distribution']['type'] (or ['parameters']) is not there
CalculateDelayRaises(doc) ==
    LET params == IF proc = "request" THEN doc.request_channel ELSE doc.reply_channel
    IN  /\ params.distribution.type = Unset
        /\ \E u \in UDraws : ~DropGate(u, params.drop_probability)

\* One pass of the inner loop with no ticket waiting:
\*   connection.process_data_events(time_limit=100)
\* which hands a buffered delivery to the callback.  A pass that finds
\* nothing to hand over changes nothing.  Other programs may rewrite
\* channel.yml at any time, so the document a callback finds is any one of
\* Docs: channel_yml takes that value in the step that reads it.
process_data_events(Docs) ==
    /\ pc = "loop"
    /\ ack_queue = <<>>
    /\ \/ \* the callback reads channel.yml, runs and returns
          /\ chan_open
          /\ buffer # <<>>
          /\ channel_yml' \in Docs
          /\ channel_yml'.ok
          /\ on_message_callback(Head(buffer))
          /\ buffer' = Tail(buffer)
          /\ UNCHANGED <<pc, sess, chan_open, next_tag, queues, unacked>>
       \/ \* open('channel.yml'), yaml.safe_load, the section lookup or
          \* _calculate_delay raises, and the exception leaves
          \* process_data_events
          /\ chan_open
          /\ buffer # <<>>
          /\ channel_yml' \in Docs
          /\ ~channel_yml'.ok \/ CalculateDelayRaises(channel_yml')
          /\ hist' = SetFate(Head(buffer), "config_error")
          /\ raise_in_loop
          /\ UNCHANGED timers
       \/ \* the broker has closed the channel: AMQPChannelError
          /\ ~chan_open
          /\ raise_in_loop
          /\ UNCHANGED <<channel_yml, timers, hist>>
    /\ UNCHANGED <<tunnel, retry_config, file, upd, proc, ack_queue>>

\* a variant in which the callback waits out the delay before it returns,
\* so that no pass is made while a timer is pending
poll_waits_for_delay == timers = {} /\ process_data_events(ConfigDocs)

\* the pass of the loop when channel.yml is left as it is or is damaged
poll == process_data_events(ConfigDocs)

\* the pass of the loop when the control programs rewrite channel.yml
poll_reloaded == process_data_events(ChannelDocs)

\* The connection to the broker is lost while the inner loop runs: the pika
\* call the loop is in raises StreamLostError (ConnectionClosedByBroker).
\* That call is process_data_events, or basic_ack when a ticket had been
\* taken from the ack queue, and then the ticket is gone with it.
connection_lost ==
    /\ pc = "loop"
    /\ chan_open
    /\ raise_in_loop
    /\ \/ UNCHANGED ack_queue
       \/ /\ ack_queue # <<>>
          /\ ack_queue' = Tail(ack_queue)
    /\ UNCHANGED <<tunnel, retry_config, file, upd, proc, channel_yml, timers, hist>>

(* ---------------------------- timer threads --------------------------- *)

\* a variant in which the broker gets the message twice
Published_twice(q, m) == [queues EXCEPT ![q] = Append(Append(@, m), m)]

\* basic_publish(exchange='', routing_key=q, body=..., properties=...) on a
\* connection of the thread's own
Published(q, m) == [queues EXCEPT ![q] = Append(@, m)]

ForwardKey(t) == Key(t.sess, t.tag)

\* a variant in which the timer thread acknowledges on the consuming channel
\* itself instead of handing the tag over
forward_packet_acks_directly(t) ==
    /\ proc = "request"
    /\ t \in timers
    /\ t.kind = "forward"
    /\ timers' = timers \ {t}
    /\ \/ /\ queues' = Published(REQUEST_QUEUE_AFTER_CHANNEL,
                                  Message(t.msg.body, t.msg.headers))
          /\ unacked' = RemoveTag(t.tag)
          /\ hist' = [hist EXCEPT ![ForwardKey(t)].fate = "forwarded",
                                  ![ForwardKey(t)].acks = @ + 1]
       \/ /\ hist' = [hist EXCEPT ![ForwardKey(t)].fate = "failed"]
          /\ UNCHANGED <<queues, unacked>>
    /\ UNCHANGED <<tunnel, retry_config, file, upd, proc, channel_yml, pc, sess, chan_open, next_tag,
                   buffer, ack_queue>>

\* a variant that corrupts the body with the section's bit_flip mask (the
\* lowest bit is inverted when the mask has it set) before publishing
forward_packet_flips_bits(t) ==
    /\ proc = "request"
    /\ t \in timers
    /\ t.kind = "forward"
    /\ timers' = timers \ {t}
    /\ \/ /\ queues' = Published(REQUEST_QUEUE_AFTER_CHANNEL,
                Message(IF channel_yml.request_channel.bit_flip % 2 = 0 THEN t.msg.body
                        ELSE IF t.msg.body % 2 = 0 THEN t.msg.body + 1
                        ELSE t.msg.body - 1,
                        t.msg.headers))
          /\ ack_queue' = Append(ack_queue, Ticket(t.tag, t.sess))
          /\ hist' = [hist EXCEPT ![ForwardKey(t)].fate = "forwarded",
                                  ![ForwardKey(t)].tickets = @ + 1]
       \/ /\ hist' = [hist EXCEPT ![ForwardKey(t)].fate = "failed"]
          /\ UNCHANGED <<queues, ack_queue>>
    /\ UNCHANGED <<tunnel, retry_config, file, upd, proc, channel_yml, pc, sess, chan_open, next_tag,
                   unacked, buffer>>

\* a variant in which a forward runs only when no forward of an earlier
\* delivery is still pending
forward_packet_in_arrival_order(t) ==
    /\ \A o \in timers : o.kind = "forward" /\ o.sess = t.sess => t.tag <= o.tag
    /\ proc = "request"
    /\ t \in timers
    /\ t.kind = "forward"
    /\ timers' = timers \ {t}
    /\ \/ \* published: the delivery tag goes on the ack queue
          /\ queues' = Published(REQUEST_QUEUE_AFTER_CHANNEL,
                                  Message(t.msg.body, t.msg.headers))
          /\ ack_queue' = Append(ack_queue, Ticket(t.tag, t.sess))
          /\ hist' = [hist EXCEPT ![ForwardKey(t)].fate = "forwarded",
                                  ![ForwardKey(t)].tickets = @ + 1]
       \/ \* connecting or publishing raised: logged
          /\ hist' = [hist EXCEPT ![ForwardKey(t)].fate = "failed"]
          /\ UNCHANGED <<queues, ack_queue>>
    /\ UNCHANGED <<tunnel, retry_config, file, upd, proc, channel_yml, pc, sess, chan_open, next_tag,
                   unacked, buffer>>

\* forward_packet of RequestProcessor._process_packet, run by its timer
forward_packet(t) ==
    /\ proc = "request"
    /\ t \in timers
    /\ t.kind = "forward"
    /\ timers' = timers \ {t}
    /\ \/ \* published: the delivery tag goes on the ack queue
          /\ queues' = Published(REQUEST_QUEUE_AFTER_CHANNEL,
                                  Message(t.msg.body, t.msg.headers))
          /\ ack_queue' = Append(ack_queue, Ticket(t.tag, t.sess))
          /\ hist' = [hist EXCEPT ![ForwardKey(t)].fate = "forwarded",
                                  ![ForwardKey(t)].tickets = @ + 1]
       \/ \* connecting or publishing raised: logged
          /\ hist' = [hist EXCEPT ![ForwardKey(t)].fate = "failed"]
          /\ UNCHANGED <<queues, ack_queue>>
    /\ UNCHANGED <<tunnel, retry_config, file, upd, proc, channel_yml, pc, sess, chan_open, next_tag,
                   unacked, buffer>>

\* a variant of the limit test that lets one more attempt through
RetriesExhausted_gt(retries) == retries > max_retries

\* a variant of the limit test that gives up one attempt early
RetriesExhausted_early(retries) == retries + 1 >= max_retries

\* if retries >= self.retry_config['max_retries']
RetriesExhausted(retries) == retries >= retry_config.max_retries

\* a variant whose backoff starts one doubling further on
RetryDelay_next_power(retries, g) ==
    (2 ^ (retries + 1)) * retry_config.base_delay
        + Uniform(-retry_config.jitter, retry_config.jitter, g)

\* a variant whose backoff grows by base_delay with every retry
RetryDelay_linear(retries, g) ==
    (retries + 1) * retry_config.base_delay
        + Uniform(-retry_config.jitter, retry_config.jitter, g)

\* a variant that takes the retry section of the document read last
RetryDelay_reloaded(retries, g) ==
    (2 ^ retries) * channel_yml.retry.base_delay
        + Uniform(-channel_yml.retry.jitter, channel_yml.retry.jitter, g)

\* delay = (2 ** retries) * base_delay + jitter, the jitter draw at fraction g
RetryDelay(retries, g) ==
    (2 ^ retries) * retry_config.base_delay
        + Uniform(-retry_config.jitter, retry_config.jitter, g)

\* ResponseProcessor._handle_retry(method, body, properties), called by
\* forward_message for the forward timer t whose publish raised
handle_retry(t) ==
    LET headers == HeadersOrEmpty(t.msg.headers)
        retries == GetRetries(headers)
    IN  IF RetriesExhausted(retries)
        THEN /\ timers' = timers \ {t}
             /\ hist' = [hist EXCEPT ![ForwardKey(t)].fate = "failed",
                                     ![ForwardKey(t)].retry = "exhausted"]
        ELSE /\ \E g \in Fractions :
                  timers' = (timers \ {t}) \cup
                     {Timer("retry", t.sess, t.tag, [t.msg EXCEPT !.headers = headers],
                            retries, RetryDelay(retries, g))}
             /\ hist' = [hist EXCEPT ![ForwardKey(t)].fate = "failed",
                                     ![ForwardKey(t)].retry = "scheduled"]

\* a variant that only logs a failed publish, as the request side does
forward_message_logs_only(t) ==
    /\ proc = "reply"
    /\ t \in timers
    /\ t.kind = "forward"
    /\ timers' = timers \ {t}
    /\ \/ /\ queues' = Published(REPLY_QUEUE_AFTER_CHANNEL,
                                  Message(t.msg.body, t.msg.headers))
          /\ ack_queue' = Append(ack_queue, Ticket(t.tag, t.sess))
          /\ hist' = [hist EXCEPT ![ForwardKey(t)].fate = "forwarded",
                                  ![ForwardKey(t)].tickets = @ + 1]
       \/ /\ hist' = [hist EXCEPT ![ForwardKey(t)].fate = "failed"]
          /\ UNCHANGED <<queues, ack_queue>>
    /\ UNCHANGED <<tunnel, retry_config, file, upd, proc, channel_yml, pc, sess, chan_open, next_tag,
                   unacked, buffer>>

\* forward_message of ResponseProcessor._process_message, run by its timer
forward_message(t) ==
    /\ proc = "reply"
    /\ t \in timers
    /\ t.kind = "forward"
    /\ \/ \* published: the delivery tag goes on the ack queue
          /\ queues' = Published(REPLY_QUEUE_AFTER_CHANNEL,
                                  Message(t.msg.body, t.msg.headers))
          /\ ack_queue' = Append(ack_queue, Ticket(t.tag, t.sess))
          /\ timers' = timers \ {t}
          /\ hist' = [hist EXCEPT ![ForwardKey(t)].fate = "forwarded",
                                  ![ForwardKey(t)].tickets = @ + 1]
       \/ \* connecting or publishing raised: logged, then the retry path
          /\ handle_retry(t)
          /\ UNCHANGED <<queues, ack_queue>>
    /\ UNCHANGED <<tunnel, retry_config, file, upd, proc, channel_yml, pc, sess, chan_open, next_tag,
                   unacked, buffer>>

\* a variant that schedules the resubmission again when its publish raised
retry_publish_reschedules(t) ==
    /\ proc = "reply"
    /\ t \in timers
    /\ t.kind = "retry"
    /\ \/ /\ queues' = Published(REPLY_QUEUE,
                Stored(Message(t.msg.body, WithRetries(t.msg.headers, t.retries + 1)),
                       ForwardKey(t)))
          /\ timers' = timers \ {t}
          /\ hist' = [hist EXCEPT ![ForwardKey(t)].retry = "published"]
       \/ /\ hist' = [hist EXCEPT ![ForwardKey(t)].retry = "publish_failed"]
          /\ \E g \in Fractions :
                timers' = (timers \ {t}) \cup
                   {Timer("retry", t.sess, t.tag, t.msg, t.retries + 1,
                          RetryDelay(t.retries + 1, g))}
          /\ UNCHANGED queues
    /\ UNCHANGED <<tunnel, retry_config, file, upd, proc, channel_yml, pc, sess, chan_open, next_tag,
                   unacked, buffer, ack_queue>>

\* retry_publish of ResponseProcessor._handle_retry, run by its timer
retry_publish(t) ==
    /\ proc = "reply"
    /\ t \in timers
    /\ t.kind = "retry"
    /\ timers' = timers \ {t}
    /\ \/ \* the copy is published to the inbound queue, one retry further
          /\ queues' = Published(REPLY_QUEUE,
                Stored(Message(t.msg.body, WithRetries(t.msg.headers, t.retries + 1)),
                       ForwardKey(t)))
          /\ hist' = [hist EXCEPT ![ForwardKey(t)].retry = "published"]
       \/ \* connecting or publishing raised: logged
          /\ hist' = [hist EXCEPT ![ForwardKey(t)].retry = "publish_failed"]
          /\ UNCHANGED queues
    /\ UNCHANGED <<tunnel, retry_config, file, upd, proc, channel_yml, pc, sess, chan_open, next_tag,
                   unacked, buffer, ack_queue>>

(* ---------------------------- specification --------------------------- *)

Next ==
    \/ start_consume
    \/ broker_deliver
    \/ drain_ack
    \/ poll
    \/ connection_lost
    \/ \E t \in timers : forward_packet(t)
    \/ \E t \in timers : forward_message(t)
    \/ \E t \in timers : retry_publish(t)

Spec == Init /\ [][Next]_vars

\* The consume loop's thread, the timer threads and the broker keep running;
\* nothing obliges the connection to break.
Fairness ==
    /\ WF_vars(start_consume)
    /\ WF_vars(broker_deliver)
    /\ WF_vars(drain_ack)
    /\ WF_vars(poll)
    /\ WF_vars(\E t \in timers : forward_packet(t))
    /\ WF_vars(\E t \in timers : forward_message(t))
    /\ WF_vars(\E t \in timers : retry_publish(t))

FairSpec == Spec /\ Fairness

\* The processors with a connection to the broker that stays up.
SteadyNext ==
    \/ start_consume
    \/ broker_deliver
    \/ drain_ack
    \/ poll
    \/ \E t \in timers : forward_packet(t)
    \/ \E t \in timers : forward_message(t)
    \/ \E t \in timers : retry_publish(t)

SteadySpec == Init /\ [][SteadyNext]_vars /\ Fairness

\* The processors with a channel.yml that is rewritten between packets and
\* a connection that stays up.
ChannelInit ==
    /\ proc \in Procs
    /\ channel_yml \in ChannelDocs
    /\ pc = "start"
    /\ sess = 1
    /\ chan_open = TRUE
    /\ next_tag = 1
    /\ \E n \in 1..MaxPackets :
          queues = [q \in QueueNames |->
                       IF q = InboundQueue(proc) THEN Batch(n) ELSE <<>>]
    /\ unacked = <<>>
    /\ buffer = <<>>
    /\ ack_queue = <<>>
    /\ timers = {}
    /\ hist = <<>>
    /\ file = NotFollowed
    /\ upd = NoCall(0)
    /\ retry_config = DefaultRetryConfig
    /\ tunnel = NotStarted

ChannelNext ==
    \/ start_consume
    \/ broker_deliver
    \/ drain_ack
    \/ poll_reloaded
    \/ \E t \in timers : forward_packet(t)
    \/ \E t \in timers : forward_message(t)
    \/ \E t \in timers : retry_publish(t)

ChannelSpec == ChannelInit /\ [][ChannelNext]_vars

(* ------------------------------ shutdown ------------------------------ *)

\* SIGINT or SIGTERM reaches the response processor, whose handler calls
\* sys.exit(0), or SIGINT reaches the request processor (KeyboardInterrupt):
\* the exception leaves start() from wherever the loop is.  The request
\* processor's with block closes the consuming connection on the way out;
\* the response processor's connection is left as it is.  The timer threads
\* already started are not daemon threads: they go on.
signal_received ==
    /\ pc \in {"start", "loop"}
    /\ pc' = "stopped"
    /\ IF proc = "request"
       THEN SessionClosed /\ chan_open' = FALSE
       ELSE UNCHANGED <<chan_open, queues, unacked, buffer>>
    /\ UNCHANGED <<tunnel, retry_config, file, upd, proc, channel_yml, sess, next_tag, ack_queue, timers, hist>>

\* SIGTERM reaches the request processor, which installs no handler for it:
\* the process is ended at once, its timer threads with it.
sigterm_request ==
    /\ proc = "request"
    /\ pc \in {"start", "loop", "stopped"}
    /\ pc' = "terminated"
    /\ timers' = {}
    /\ SessionClosed
    /\ chan_open' = FALSE
    /\ UNCHANGED <<tunnel, retry_config, file, upd, proc, channel_yml, sess, next_tag, ack_queue, hist>>

\* The interpreter exits once the main thread and the last timer thread are
\* done; the broker sees the consuming connection go.
process_exit ==
    /\ pc = "stopped"
    /\ timers = {}
    /\ pc' = "terminated"
    /\ SessionClosed
    /\ chan_open' = FALSE
    /\ UNCHANGED <<tunnel, retry_config, file, upd, proc, channel_yml, sess, next_tag, ack_queue, timers, hist>>

ShutdownNext ==
    \/ start_consume
    \/ broker_deliver
    \/ drain_ack
    \/ poll
    \/ \E t \in timers : forward_packet(t)
    \/ \E t \in timers : forward_message(t)
    \/ \E t \in timers : retry_publish(t)
    \/ signal_received
    \/ sigterm_request
    \/ process_exit

ShutdownSpec == Init /\ [][ShutdownNext]_vars

(* ------------------------- configuration update ----------------------- *)

\* update_channel_yaml_safe(file_path, payload) up to the dump: the file is
\* loaded, the payload is applied to the data and the data is dumped to a
\* string.  yaml.load raising, or a root that is not a mapping (ValueError),
\* ends the call with the file as it was.  `before` records the document
\* the call loaded.
update_load ==
    /\ upd.pc = "idle"
    /\ upd.n < MaxUpdates
    /\ LET data == Load(file)
       IN  IF data.ok
           THEN \E payload \in Payloads :
                   upd' = [pc |-> "write", n |-> upd.n + 1, before |-> data,
                           dumped |-> Dump(Updated(data, payload)), payload |-> payload]
           ELSE upd' = NoCall(upd.n + 1)
    /\ UNCHANGED <<tunnel, retry_config, file, proc, channel_yml, pc, sess, chan_open, next_tag,
                   queues, unacked, buffer, ack_queue, timers, hist>>

\* open(file_path, "r+"); f.seek(0); f.write(dumped), as it reaches the
\* file: the text is written over the beginning of the old one and what
\* the old one has beyond it stays
update_write ==
    /\ upd.pc = "write"
    /\ file' = upd.dumped \o SubSeq(file, Len(upd.dumped) + 1, Len(file))
    /\ upd' = [upd EXCEPT !.pc = "truncate"]
    /\ UNCHANGED <<tunnel, retry_config, proc, channel_yml, pc, sess, chan_open, next_tag,
                   queues, unacked, buffer, ack_queue, timers, hist>>

\* f.truncate(): the file ends where the written text ends; the call returns
update_truncate ==
    /\ upd.pc = "truncate"
    /\ file' = SubSeq(file, 1, Len(upd.dumped))
    /\ upd' = NoCall(upd.n)
    /\ UNCHANGED <<tunnel, retry_config, proc, channel_yml, pc, sess, chan_open, next_tag,
                   queues, unacked, buffer, ack_queue, timers, hist>>

\* the pass of the loop whose callback reads channel.yml from the disk
poll_file == process_data_events({Load(file)})

\* a file whose root is a scalar
ScalarText == <<"0", "nl">>

\* channel.yml when the run starts: the document the processor was started
\* with, without or with a retry section, or a text that has replaced it
InitialTexts ==
    {Dump(Document(GoodDoc.request_channel, GoodDoc.reply_channel, r)) : r \in {Absent, 5}}
    \cup {ScalarText, <<>>}

\* The processors with a channel.yml that update_channel_yaml_safe rewrites
\* while they run.
FileInit ==
    /\ proc \in Procs
    /\ channel_yml = GoodDoc
    /\ pc = "start"
    /\ sess = 1
    /\ chan_open = TRUE
    /\ next_tag = 1
    /\ queues = [q \in QueueNames |-> IF q = InboundQueue(proc) THEN Batch(1) ELSE <<>>]
    /\ unacked = <<>>
    /\ buffer = <<>>
    /\ ack_queue = <<>>
    /\ timers = {}
    /\ hist = <<>>
    /\ file \in InitialTexts
    /\ upd = NoCall(0)
    /\ retry_config = DefaultRetryConfig
    /\ tunnel = NotStarted

FileNext ==
    \/ start_consume
    \/ broker_deliver
    \/ drain_ack
    \/ poll_file
    \/ \E t \in timers : forward_packet(t)
    \/ \E t \in timers : forward_message(t)
    \/ \E t \in timers : retry_publish(t)
    \/ update_load
    \/ update_write
    \/ update_truncate

FileSpec == FileInit /\ [][FileNext]_vars

(* ------------------------- fallback distribution ---------------------- *)

\* channel sections whose distribution type is none of the three the code
\* knows: a name it does not know, or no type at all
FallbackTypes == {"triangular", Unset}
FallbackDocs ==
    {[ok |-> TRUE, request_channel |-> p, reply_channel |-> p] :
        p \in UNION {{ChannelSection(dtype, r[1], r[2], jit, drop, r[1], r[2]) :
                        dtype \in FallbackTypes, jit \in Jitters, drop \in {0, 50}} :
                     r \in Ranges}}

\* the pass of the loop when channel.yml names no known distribution
poll_fallback == process_data_events(FallbackDocs)

\* The processors with a channel.yml that names no known distribution.
FallbackInit ==
    /\ proc \in Procs
    /\ channel_yml \in FallbackDocs
    /\ pc = "start"
    /\ sess = 1
    /\ chan_open = TRUE
    /\ next_tag = 1
    /\ \E n \in 1..2 :
          queues = [q \in QueueNames |->
                       IF q = InboundQueue(proc) THEN Batch(n) ELSE <<>>]
    /\ unacked = <<>>
    /\ buffer = <<>>
    /\ ack_queue = <<>>
    /\ timers = {}
    /\ hist = <<>>
    /\ file = NotFollowed
    /\ upd = NoCall(0)
    /\ retry_config = DefaultRetryConfig
    /\ tunnel = NotStarted

FallbackNext ==
    \/ start_consume
    \/ broker_deliver
    \/ drain_ack
    \/ poll_fallback
    \/ \E t \in timers : forward_packet(t)
    \/ \E t \in timers : forward_message(t)
    \/ \E t \in timers : retry_publish(t)

FallbackSpec == FallbackInit /\ [][FallbackNext]_vars

(* ------------------------------- backoff ------------------------------ *)

\* the retry sections channel.yml can hold when the response processor is
\* constructed: a base delay of none or of a second, no jitter, jitter
\* below the base delay and above it, and a limit that lets a packet go
\* through several retries
RetryConfigs ==
    {[max_retries |-> m, base_delay |-> b, jitter |-> j] :
        m \in {max_retries, max_retries + 2}, b \in {0, base_delay},
        j \in {0, retry_jitter, base_delay + retry_jitter}}

\* threading.Timer(delay / 1000, ...).start(): what the thread waits before
\* it calls the function; an interval below 0 is waited as none
TimerWait(delay) == Max(0, delay)

\* The response processor with a retry section of channel.yml.
RetryInit ==
    /\ proc = "reply"
    /\ channel_yml = GoodDoc
    /\ pc = "start"
    /\ sess = 1
    /\ chan_open = TRUE
    /\ next_tag = 1
    /\ queues = [q \in QueueNames |-> IF q = InboundQueue(proc) THEN Batch(1) ELSE <<>>]
    /\ unacked = <<>>
    /\ buffer = <<>>
    /\ ack_queue = <<>>
    /\ timers = {}
    /\ hist = <<>>
    /\ file = NotFollowed
    /\ upd = NoCall(0)
    /\ retry_config \in RetryConfigs
    /\ tunnel = NotStarted

RetryNext ==
    \/ start_consume
    \/ broker_deliver
    \/ drain_ack
    \/ poll
    \/ \E t \in timers : forward_message(t)
    \/ \E t \in timers : retry_publish(t)

RetrySpec == RetryInit /\ [][RetryNext]_vars

(* -------------------------- retry section ----------------------------- *)

\* the defaults of ResponseProcessor.__init__
CodeDefaultRetry ==
    [max_retries |-> 5, base_delay |-> base_delay, jitter |-> retry_jitter]

\* channel.yml has no retry section
NoRetrySection == [max_retries |-> Absent, base_delay |-> Absent, jitter |-> Absent]

\* the retry sections channel.yml holds at construction or is given later
RetrySections ==
    {NoRetrySection, DefaultRetryConfig,
     [max_retries |-> 2, base_delay |-> 2 * base_delay, jitter |-> 0]}

\* channel.yml with a retry section; the reply channel drops nothing
RetryDocs ==
    {[ok |-> TRUE,
      request_channel |-> ChannelParams("uniform", 10, 20, 0, 0),
      reply_channel |-> ChannelParams("uniform", 10, 20, 0, 0),
      retry |-> r] : r \in RetrySections}

\* config.get('retry', {'max_retries': 5, 'base_delay': 1000, 'jitter': 500})
ConstructedRetryConfig(config) ==
    IF config.retry = NoRetrySection THEN CodeDefaultRetry ELSE config.retry

\* the pass of the loop when the retry section of channel.yml is rewritten
poll_retry_section == process_data_events(RetryDocs)

\* main.py loads channel.yml and hands it to ResponseProcessor.__init__
ConstructInit ==
    /\ proc = "reply"
    /\ channel_yml \in RetryDocs
    /\ retry_config = ConstructedRetryConfig(channel_yml)
    /\ tunnel = NotStarted
    /\ pc = "start"
    /\ sess = 1
    /\ chan_open = TRUE
    /\ next_tag = 1
    /\ queues = [q \in QueueNames |-> IF q = InboundQueue(proc) THEN Batch(2) ELSE <<>>]
    /\ unacked = <<>>
    /\ buffer = <<>>
    /\ ack_queue = <<>>
    /\ timers = {}
    /\ hist = <<>>
    /\ file = NotFollowed
    /\ upd = NoCall(0)

ConstructNext ==
    \/ start_consume
    \/ broker_deliver
    \/ drain_ack
    \/ poll_retry_section
    \/ \E t \in timers : forward_message(t)
    \/ \E t \in timers : retry_publish(t)

ConstructSpec == ConstructInit /\ [][ConstructNext]_vars

(* ---------------------------- two channels --------------------------- *)

\* the section of the processor's own channel: nothing is dropped and every
\* delay is 15
OwnSection == ChannelParams("uniform", 15, 15, 0, 0)

\* what the section of the other channel can hold meanwhile: the same, a
\* channel that drops everything over another range, and a section without
\* a distribution type
OtherSections ==
    {OwnSection,
     ChannelParams("uniform", 10, 20, 0, 100),
     [OwnSection EXCEPT !.distribution.type = Unset]}

\* channel.yml with the two sections
TwoChannelDocs ==
    {[ok |-> TRUE,
      request_channel |-> IF proc = "request" THEN OwnSection ELSE o,
      reply_channel |-> IF proc = "reply" THEN OwnSection ELSE o] : o \in OtherSections}

\* the packet that waits in the queues of the other channel
OtherBatch == <<Stored(Message(MaxPackets + 1, NoneHeaders), <<0, MaxPackets + 1>>)>>

\* the queues of the other channel
OtherQueues == QueueNames \ {InboundQueue(proc), OutboundQueue(proc)}

\* the pass of the loop when channel.yml holds different sections
poll_two_channels == process_data_events(TwoChannelDocs)

\* One processor runs while the queues of the other channel hold packets.
TwoChannelInit ==
    /\ proc \in Procs
    /\ channel_yml \in TwoChannelDocs
    /\ pc = "start"
    /\ sess = 1
    /\ chan_open = TRUE
    /\ next_tag = 1
    /\ \E n \in 1..2 :
          queues = [q \in QueueNames |->
                       IF q = InboundQueue(proc) THEN Batch(n)
                       ELSE IF q = OutboundQueue(proc) THEN <<>> ELSE OtherBatch]
    /\ unacked = <<>>
    /\ buffer = <<>>
    /\ ack_queue = <<>>
    /\ timers = {}
    /\ hist = <<>>
    /\ file = NotFollowed
    /\ upd = NoCall(0)
    /\ retry_config = DefaultRetryConfig
    /\ tunnel = NotStarted

TwoChannelNext ==
    \/ start_consume
    \/ broker_deliver
    \/ drain_ack
    \/ poll_two_channels
    \/ connection_lost
    \/ \E t \in timers : forward_packet(t)
    \/ \E t \in timers : forward_message(t)
    \/ \E t \in timers : retry_publish(t)

TwoChannelSpec == TwoChannelInit /\ [][TwoChannelNext]_vars

(* ----------------------------- container_b --------------------------- *)

\* What a request message can be: an ICMP echo request, an IP packet that
\* is none (ValueError), and bytes scapy cannot take (Scapy_Exception).
PacketKinds == {"echo_request", "other", "malformed"}

TunnelQueues ==
    {<<a>> : a \in PacketKinds} \cup {<<a, b>> : a \in PacketKinds, b \in PacketKinds}

\* the record of a message basic_get has just returned
NewFetch(body) ==
    [body |-> body, written |-> FALSE, acks |-> 0, nacks |-> 0, requeue |-> FALSE]

\* the variables of the channel processors
ProcessorVars ==
    <<proc, channel_yml, pc, sess, chan_open, next_tag, queues, unacked, buffer,
      ack_queue, timers, hist, file, upd, retry_config>>

\* TunnelManager.process_message up to `if not method: return False`;
\* an empty queue changes nothing
tunnel_basic_get ==
    /\ tunnel.pc = "poll"
    /\ tunnel.channel_open
    /\ tunnel.request_queue # <<>>
    /\ Len(tunnel.log) < MaxFetches
    /\ tunnel' = [tunnel EXCEPT !.pc = "fetched",
                                !.request_queue = Tail(@),
                                !.method = Len(tunnel.log) + 1,
                                !.log = Append(@, NewFetch(Head(tunnel.request_queue)))]
    /\ UNCHANGED ProcessorVars

\* basic_get on a channel the broker has closed raises; run_loop logs,
\* calls cleanup and connects again
tunnel_channel_closed ==
    /\ tunnel.pc = "poll"
    /\ ~tunnel.channel_open
    /\ tunnel' = [tunnel EXCEPT !.channel_open = TRUE]
    /\ UNCHANGED ProcessorVars

\* self.channel.basic_nack(method.delivery_tag, requeue=...): the record of
\* the message afterwards
basic_nack(l, requeue) ==
    [l EXCEPT !.nacks = @ + 1, !.requeue = requeue]

\* process_message from IP(body) to basic_ack, with the except clauses
tunnel_handle_request ==
    /\ tunnel.pc = "fetched"
    /\ LET n == tunnel.method
           body == tunnel.log[n].body
       IN  \/ \* Scapy_Exception or ValueError: nack without requeue
              /\ body # "echo_request"
              /\ tunnel' = [tunnel EXCEPT !.pc = "poll", !.method = 0,
                                          !.log[n] = basic_nack(@, FALSE)]
           \/ \* written to the TUN device and acknowledged
              /\ body = "echo_request"
              /\ tunnel' = [tunnel EXCEPT !.pc = "waiting", !.selects = 0,
                                          !.log[n].written = TRUE,
                                          !.log[n].acks = @ + 1]
           \/ \* tun.write raises: nack with requeue, re-raised; run_loop
              \* cleans up and connects again
              /\ body = "echo_request"
              /\ tunnel' = [tunnel EXCEPT !.pc = "poll", !.method = 0,
                                          !.request_queue = <<body>> \o @,
                                          !.log[n] = basic_nack(@, TRUE)]
           \/ \* the connection is lost at basic_ack: basic_nack in the
              \* handler raises as well and the broker requeues the message
              /\ body = "echo_request"
              /\ tunnel' = [tunnel EXCEPT !.pc = "poll", !.method = 0,
                                          !.request_queue = <<body>> \o @,
                                          !.log[n].written = TRUE]
    /\ UNCHANGED ProcessorVars

\* process_message from the wait for the reply to its return, with the
\* except clauses
tunnel_wait_reply ==
    /\ tunnel.pc = "waiting"
    /\ LET n == tunnel.method
       IN  \/ \* select times out, or what was read is no echo reply
              /\ tunnel.selects < MaxSelects
              /\ tunnel' = [tunnel EXCEPT !.selects = @ + 1]
           \/ \* two seconds have passed: "Timeout bei Antwort", return True
              /\ tunnel.selects = MaxSelects
              /\ tunnel' = [tunnel EXCEPT !.pc = "poll", !.method = 0]
           \/ \* the echo reply is published to network_reply, return True
              /\ tunnel' = [tunnel EXCEPT !.pc = "poll", !.method = 0,
                                          !.replies = @ + 1]
           \/ \* IP(response) raises Scapy_Exception: nack without requeue;
              \* the broker does not know the tag any more and closes the
              \* channel
              /\ tunnel' = [tunnel EXCEPT !.pc = "poll", !.method = 0,
                                          !.channel_open = FALSE,
                                          !.log[n] = basic_nack(@, FALSE)]
           \/ \* select, tun.read or basic_publish raises: nack with
              \* requeue, re-raised; run_loop cleans up and connects again
              /\ tunnel' = [tunnel EXCEPT !.pc = "poll", !.method = 0,
                                          !.log[n] = basic_nack(@, TRUE)]
    /\ UNCHANGED ProcessorVars

\* container_b has opened the TUN device and its connection; the channel
\* processors are left out
TunnelInit ==
    /\ \E q \in TunnelQueues :
          tunnel = [pc |-> "poll", request_queue |-> q, method |-> 0,
                    channel_open |-> TRUE, selects |-> 0, replies |-> 0, log |-> <<>>]
    /\ proc = "request"
    /\ channel_yml = GoodDoc
    /\ pc = "start"
    /\ sess = 1
    /\ chan_open = TRUE
    /\ next_tag = 1
    /\ queues = [q \in QueueNames |-> <<>>]
    /\ unacked = <<>>
    /\ buffer = <<>>
    /\ ack_queue = <<>>
    /\ timers = {}
    /\ hist = <<>>
    /\ file = NotFollowed
    /\ upd = NoCall(0)
    /\ retry_config = DefaultRetryConfig

TunnelNext ==
    \/ tunnel_basic_get
    \/ tunnel_channel_closed
    \/ tunnel_handle_request
    \/ tunnel_wait_reply

TunnelSpec == TunnelInit /\ [][TunnelNext]_vars

(* ------------------------------- claims ------------------------------- *)

Deliveries == DOMAIN hist

\* C1: basic_ack is issued for a delivery only after that delivery's publish
\* to the outbound queue has succeeded; a delivery that was dropped, is
\* still waiting for its timer or whose forward failed is not acknowledged.
C1_AckOnlyAfterForward ==
    \A k \in Deliveries : hist[k].acks > 0 => hist[k].fate = "forwarded"

\* C1 on the request channel alone, where no session is ever reopened

\* every key a delivery of a run can have
Keys == (1..MaxSessions) \X (1..MaxDeliveries)

Forwarded(k) == k \in Deliveries /\ hist[k].fate = "forwarded"

\* some delivery of the same broker message has been acknowledged
MessageAcked(k) ==
    /\ k \in Deliveries
    /\ \E k2 \in Deliveries : hist[k2].msg = hist[k].msg /\ hist[k2].acks > 0

\* the run has come to an end the bounds or the broker's loss impose: no
\* delivery is left to make, or the consume loop has ended
RunCut == Cardinality(Deliveries) >= MaxDeliveries \/ pc = "terminated"

\* C2: every packet whose publish to the outbound queue succeeded is
\* eventually acknowledged to the broker, also when the session reconnects
\* between the delivery and the drain of its ticket.
C2_ForwardedEventuallyAcked ==
    \A k \in Keys : Forwarded(k) ~> (MessageAcked(k) \/ RunCut)

Sum(f, S) ==
    LET RECURSIVE Go(_)
        Go(T) == IF T = {} THEN 0
                 ELSE LET x == CHOOSE y \in T : TRUE IN f[x] + Go(T \ {x})
    IN  Go(S)

AcksIssued == Sum([k \in Deliveries |-> hist[k].acks], Deliveries)
Forwards == Cardinality({k \in Deliveries : hist[k].fate = "forwarded"})

\* C3: a delivery whose forward succeeded gets exactly one AckTicket and one
\* basic_ack; no delivery is enqueued or acknowledged twice, and the acks
\* issued never outnumber the successful forwards.
C3_OneTicketOneAck ==
    /\ \A k \in Deliveries :
         /\ hist[k].tickets = (IF hist[k].fate = "forwarded" THEN 1 ELSE 0)
         /\ hist[k].acks <= 1
    /\ AcksIssued <= Forwards

\* the forward of delivery k will not be followed by anything more: it was
\* lost on the request channel, or its retries are exhausted, or the
\* resubmission could not be published
TerminallyDropped(k) ==
    /\ hist[k].fate = "failed"
    /\ proc = "request" \/ hist[k].retry \in {"exhausted", "publish_failed"}

\* the packet of delivery k has reached a final state: one of its deliveries
\* was forwarded and acknowledged, or one of them was terminally dropped
Settled(k) ==
    /\ k \in Deliveries
    /\ \E k2 \in Deliveries :
         /\ hist[k2].msg.body = hist[k].msg.body
         /\ \/ hist[k2].fate = "forwarded" /\ hist[k2].acks > 0
            \/ TerminallyDropped(k2)

\* C4: every delivered packet eventually is forwarded and acknowledged or
\* terminally dropped; none stays pending forever.
C4_NoPacketPendingForever ==
    \A k \in Keys : (k \in Deliveries) ~> (Settled(k) \/ RunCut)

Dropped(k) == k \in Deliveries /\ hist[k].fate = "dropped"

\* the message of delivery k has been delivered once more after k
DeliveredAgain(k) ==
    /\ k \in Deliveries
    /\ \E k2 \in Deliveries :
         /\ hist[k2].msg = hist[k].msg
         /\ k2[1] > k[1]

\* C5: a delivery the drop gate discarded starts no timer, publishes nothing,
\* gets no ticket and no ack, and its message is delivered again later.
C5_DroppedIsRedelivered ==
    /\ [](\A k \in Deliveries :
            hist[k].fate = "dropped" =>
                /\ hist[k].tickets = 0
                /\ \A t \in timers : ForwardKey(t) # k)
    /\ \A k \in Keys : Dropped(k) ~> (DeliveredAgain(k) \/ RunCut)

\* C6: a delivery whose publish raised never produces an AckTicket and is
\* never acknowledged.
C6_FailedNeverAcked ==
    \A k \in Deliveries :
        hist[k].fate = "failed" => hist[k].tickets = 0 /\ hist[k].acks = 0

\* the retry counter a delivery was received with (an absent header is 0)
ReceivedRetries(k) ==
    IF hist[k].msg.headers.none \/ hist[k].msg.headers.retries = Absent
    THEN 0 ELSE hist[k].msg.headers.retries

RetryTimers(k) == {t \in timers : t.kind = "retry" /\ ForwardKey(t) = k}

\* the copy the retry path of delivery k has to publish
ExpectedCopy(k) ==
    [body |-> hist[k].msg.body,
     headers |-> [none |-> FALSE, retries |-> ReceivedRetries(k) + 1,
                  rest |-> hist[k].msg.headers.rest],
     origin |-> k]

\* C7: a failed forward of a reply packet with retry counter r < max_retries
\* schedules exactly one resubmission, whose delay lies within the jitter
\* bound of 2^r * base_delay ([1000 - j, 1000 + j] for r = 0); when it runs
\* it publishes the same body to network_reply with the counter r + 1.
C7_OneResubmissionCounterPlusOne ==
    /\ [](\A k \in Deliveries :
            /\ (hist[k].fate = "failed" /\ proc = "reply"
                    /\ ReceivedRetries(k) < max_retries)
                 => /\ hist[k].retry \in {"scheduled", "published", "publish_failed"}
                    /\ Cardinality(RetryTimers(k))
                         = (IF hist[k].retry = "scheduled" THEN 1 ELSE 0)
            /\ \A t \in RetryTimers(k) :
                 /\ hist[k].fate = "failed"
                 /\ t.msg.body = hist[k].msg.body
                 /\ t.retries = ReceivedRetries(k)
                 /\ t.delay >= (2 ^ t.retries) * base_delay - retry_jitter
                 /\ t.delay <= (2 ^ t.retries) * base_delay + retry_jitter
                 /\ t.retries = 0 =>
                      t.delay \in (1000 - retry_jitter)..(1000 + retry_jitter))
    /\ [][\A t \in timers :
            (t.kind = "retry" /\ t \notin timers')
              => \/ queues' = queues
                 \/ queues' = [queues EXCEPT ![REPLY_QUEUE] =
                                  Append(@, ExpectedCopy(ForwardKey(t)))]]_vars

\* a resubmitted copy of a packet has reached network_reply
C7_Witness ==
    \E k \in Deliveries :
        /\ hist[k].msg.headers.none
        /\ hist[k].retry = "published"
        /\ \E i \in 1..Len(queues[REPLY_QUEUE]) :
             queues[REPLY_QUEUE][i] = ExpectedCopy(k)

Bodies == 1..MaxPackets

DeliveriesOf(b) == {k \in Deliveries : hist[k].msg.body = b}

\* the deliveries of packet b whose resubmission was published
Resubmitted(b) == {k \in DeliveriesOf(b) : hist[k].retry = "published"}

InQueue(q, b) == \E i \in 1..Len(queues[q]) : queues[q][i].body = b

\* every forward attempt of packet b has failed and nothing of it is left
\* to be delivered or to run
ChainStopped(b) ==
    /\ proc = "reply"
    /\ DeliveriesOf(b) # {}
    /\ \A k \in DeliveriesOf(b) :
          hist[k].fate = "failed" /\ hist[k].retry # "scheduled"
    /\ ~InQueue(REPLY_QUEUE, b)

\* C8 as stated: for a reply packet whose every forward attempt fails,
\* exactly max_retries resubmissions are made, carrying the counters
\* 1 .. max_retries, and then the chain stops.
C8_ExactlyMaxRetriesResubmissions ==
    \A b \in Bodies :
        ChainStopped(b) =>
            /\ Cardinality(Resubmitted(b)) = max_retries
            /\ {ReceivedRetries(k) + 1 : k \in Resubmitted(b)} = 1..max_retries

\* the copies of delivery k's resubmission held by the broker
CopiesOf(k) ==
    Cardinality({i \in 1..Len(queues[REPLY_QUEUE]) :
                    queues[REPLY_QUEUE][i].origin = k})
    + Cardinality({i \in 1..Len(unacked) : unacked[i].msg.origin = k})

ReplyMessages ==
    {queues[REPLY_QUEUE][i] : i \in 1..Len(queues[REPLY_QUEUE])}
        \cup {unacked[i].msg : i \in 1..Len(unacked)}

\* C8 (amended): on the reply channel every delivery is resubmitted at most
\* once, a resubmitted copy carries the counter of the delivery it comes
\* from plus one, no counter exceeds max_retries, and a delivery whose
\* counter has reached max_retries is never resubmitted.
C8_ChainCountersBounded ==
    proc = "reply" =>
        /\ \A k \in Deliveries :
              /\ ReceivedRetries(k) <= max_retries
              /\ CopiesOf(k) <= (IF hist[k].retry = "published" THEN 1 ELSE 0)
              /\ ReceivedRetries(k) >= max_retries =>
                    /\ hist[k].retry \in {"none", "exhausted"}
                    /\ RetryTimers(k) = {}
              /\ hist[k].retry = "exhausted" => ReceivedRetries(k) = max_retries
        /\ \A m \in ReplyMessages :
              \/ m.headers = ProducerHeaders(m.body) /\ m.origin \notin Deliveries
              \/ /\ m.origin \in Deliveries
                 /\ m = ExpectedCopy(m.origin)
                 /\ m.headers.retries \in 1..max_retries

\* a chain has run to its end: the copy with the counter max_retries failed
\* and was given up, and it is the resubmission of an earlier delivery
C8_Witness ==
    \E k \in Deliveries :
        /\ hist[k].retry = "exhausted"
        /\ ReceivedRetries(k) = max_retries
        /\ hist[k].msg.origin \in Deliveries
        /\ hist[hist[k].msg.origin].retry = "published"

\* C9: when the forward of a reply packet whose counter has reached
\* max_retries fails, the step only removes the timer: nothing is published
\* to any queue, no resubmission is scheduled, no ack ticket is written, and
\* the consume loop and its session are left as they were; no ticket and no
\* timer exists for the delivery afterwards.
C9_ExhaustedFailureIsSilent ==
    /\ [](\A k \in Deliveries :
            hist[k].retry = "exhausted" =>
               /\ hist[k].tickets = 0
               /\ \A t \in timers : ForwardKey(t) # k
               /\ \A i \in 1..Len(ack_queue) :
                     ack_queue[i] # Ticket(k[2], k[1]))
    /\ [][\A t \in timers :
          (/\ proc = "reply"
           /\ t.kind = "forward"
           /\ t \notin timers'
           /\ ReceivedRetries(ForwardKey(t)) >= max_retries
           /\ queues'[REPLY_QUEUE_AFTER_CHANNEL] = queues[REPLY_QUEUE_AFTER_CHANNEL])
          => /\ timers' = timers \ {t}
             /\ queues' = queues
             /\ ack_queue' = ack_queue
             /\ pc' = pc /\ sess' = sess /\ chan_open' = chan_open
             /\ unacked' = unacked /\ buffer' = buffer
             /\ hist'[ForwardKey(t)].tickets = 0
             /\ hist'[ForwardKey(t)].acks = hist[ForwardKey(t)].acks]_vars

\* a packet was given up while the consume loop keeps running in its
\* first session
C9_Witness ==
    /\ pc = "loop" /\ chan_open /\ sess = 1
    /\ \E k \in Deliveries :
          hist[k].retry = "exhausted" /\ hist[k].msg.headers.retries >= max_retries

\* C10: once a packet's retries are exhausted it is not delivered to the
\* processor again, nor forwarded or failed again, in any later step,
\* session changes included.
C10_ExhaustedNeverProcessedAgain ==
    [][\A k \in Deliveries :
          hist[k].retry = "exhausted" =>
             \A k2 \in DOMAIN hist' :
                hist'[k2].msg = hist[k].msg =>
                   k2 \in Deliveries /\ hist'[k2].fate = hist[k2].fate]_vars

\* the channel section of a document that this processor works with
Section(doc) == IF proc = "request" THEN doc.request_channel ELSE doc.reply_channel

\* the forward timers started in the current step
NewForwardTimers == {t \in timers' \ timers : t.kind = "forward"}

InRange(x, p) == p.min_delay <= x /\ x <= p.max_delay

\* the delays _calculate_delay can return for the section p
PossibleDelays(p) ==
    {(IF proc = "request" THEN request_calculate_delay(p, raw, f, g)
                          ELSE response_calculate_delay(p, raw, f, g)) :
        raw \in RawDraws(p.distribution.type), f \in Fractions, g \in Fractions}

\* C11: for every parameter set with 0 <= min_delay <= max_delay, every
\* distribution type, every raw draw and every jitter draw, the delay that
\* _calculate_delay returns on either channel, which is the delay of the
\* timer the callback starts, lies in [min_delay, max_delay].
C11_DelayWithinRange ==
    [][\A t \in NewForwardTimers : InRange(t.delay, Section(channel_yml'))]_vars

\* a delay was computed from a normal draw with a jitter bound wider than
\* the range, and it was clamped to the lower end of the range
C11_Witness ==
    \E t \in timers :
        /\ t.kind = "forward"
        /\ Section(channel_yml).distribution.type = "normal"
        /\ Section(channel_yml).jitter
              > Section(channel_yml).max_delay - Section(channel_yml).min_delay
        /\ t.delay = Section(channel_yml).min_delay

\* a step of a timer thread: a timer has run
TimerStep == \E t \in timers : t \notin timers'

\* what a publish on a connection of the thread's own can do to the queues
PublishedOrSame ==
    \/ queues' = queues
    \/ \E q \in QueueNames :
          /\ Len(queues'[q]) = Len(queues[q]) + 1
          /\ queues' = [queues EXCEPT ![q] = Append(@, queues'[q][Len(queues'[q])])]

\* C12: the consuming session (its connection, channel, deliveries and
\* acknowledgments) is operated by the consume loop alone: a step of a timer
\* thread leaves it as it is, publishes at most one message through a
\* connection of its own and at most appends its own delivery tag to the
\* ack queue.
C12_TimersNeverTouchSession ==
    [][TimerStep =>
          /\ UNCHANGED <<pc, sess, chan_open, next_tag, unacked, buffer>>
          /\ PublishedOrSame
          /\ \/ ack_queue' = ack_queue
             \/ \E t \in timers \ timers' :
                   ack_queue' = Append(ack_queue, Ticket(t.tag, t.sess))]_vars

\* a forwarded delivery whose tag waits on the ack queue for the consume
\* loop while the broker still holds the delivery unacknowledged
C12_Witness ==
    /\ pc = "loop"
    /\ \E k \in Deliveries :
          /\ hist[k].fate = "forwarded"
          /\ k[1] = sess /\ k[2] \in UnackedTags
          /\ \E i \in 1..Len(ack_queue) : ack_queue[i] = Ticket(k[2], k[1])

Inbound == queues[InboundQueue(proc)]

\* the forward timers of the open session that have not run yet
PendingDelays == {t \in timers : t.kind = "forward" /\ t.sess = sess}

\* the consume loop is running on an open session and the broker may still
\* make a delivery in this run
Consuming == pc = "loop" /\ chan_open /\ Cardinality(Deliveries) < MaxDeliveries

\* all the deliveries the broker holds unacknowledged are waiting for
\* their delay timers
AllUnackedWaiting ==
    \A i \in 1..Len(unacked) : hist[Key(sess, unacked[i].tag)].fate = "waiting"

\* C13 as stated: with any number of packets waiting for their delay
\* timers, a later packet in the inbound queue can be taken from it.
C13_PendingDelayNeverBlocks ==
    (Consuming /\ Inbound # <<>> /\ AllUnackedWaiting) => ENABLED broker_deliver

\* C13 (amended): the callback returns without waiting for the delay, so a
\* pending timer never keeps the loop from dispatching a delivery it has
\* received, and the broker hands over the next packet as long as, on the
\* reply channel, fewer than prefetch_count deliveries are unacknowledged
\* (the request channel has no such limit).
C13_DispatchNotBlockedByTimers ==
    /\ (pc = "loop" /\ chan_open /\ buffer # <<>> /\ ack_queue = <<>>)
          => ENABLED poll
    /\ (Consuming /\ Inbound # <<>>
          /\ (proc = "request" \/ Len(unacked) < prefetch_count))
          => ENABLED broker_deliver

\* a second packet has been received and processed while the first was
\* still waiting for its timer
C13_Witness ==
    /\ pc = "loop"
    /\ Cardinality(PendingDelays) >= 2
    /\ buffer = <<>>

\* the deliveries whose callback fails on reading channel.yml in this step
ConfigFailures ==
    {k \in DOMAIN hist' :
        /\ hist'[k].fate = "config_error"
        /\ k \in Deliveries => hist[k].fate # "config_error"}

\* C14: when reading the configuration fails for a packet, the packet is
\* neither forwarded nor acknowledged in that step, and the processor does
\* not terminate: it is consuming or about to consume again, and the packet
\* is back in the inbound queue to be processed again.
C14_ConfigErrorOnlyCostsThePacket ==
    [][\A k \in ConfigFailures :
          /\ hist'[k].acks = hist[k].acks
          /\ hist'[k].tickets = 0
          /\ queues'[OutboundQueue(proc)] = queues[OutboundQueue(proc)]
          /\ pc' # "terminated"
          /\ \E i \in 1..Len(queues'[InboundQueue(proc)]) :
                queues'[InboundQueue(proc)][i] = hist[k].msg]_vars

\* the deliveries the drop gate discards in this step
NewlyDropped ==
    {k \in Deliveries : hist'[k].fate = "dropped" /\ hist[k].fate # "dropped"}

\* C15: the drop decision and the delay of every packet come from the
\* channel section the document holds when the packet's callback runs: a
\* packet is dropped only if that section's drop probability admits a drop,
\* is passed on only if it admits passing, and its delay is one that
\* _calculate_delay returns for that section.
C15_ParametersReadPerPacket ==
    [][/\ \A k \in NewlyDropped :
             \E u \in UDraws : u < Section(channel_yml').drop_probability
       /\ \A t \in NewForwardTimers :
             /\ \E u \in UDraws : ~(u < Section(channel_yml').drop_probability)
             /\ t.delay \in PossibleDelays(Section(channel_yml'))]_vars

\* the document changed between two packets of one session: the earlier
\* one was dropped, the later one passed under a document that drops nothing
C15_Witness ==
    \E k1 \in Deliveries, k2 \in Deliveries :
        /\ k1[1] = k2[1] /\ k1[2] < k2[2]
        /\ hist[k1].fate = "dropped"
        /\ hist[k2].fate = "waiting"
        /\ Section(channel_yml).drop_probability = 0
        /\ buffer = <<>>

\* C16: no transport error ends the processor: after an error in the consume
\* loop it opens a new session and is about to consume again.
C16_TransportErrorNeverTerminates ==
    [][pc = "loop" /\ pc' # "loop" => pc' = "start" /\ sess' = sess + 1 /\ chan_open']_vars

\* the deliveries whose publish to the outbound queue fails in this step
NewlyFailed ==
    {k \in Deliveries : hist'[k].fate = "failed" /\ hist[k].fate # "failed"}

\* C17: a publish failure after the delay ends the delivery on the request
\* channel (nothing is published, no timer is left or started for it, and it
\* is not attempted again), and on the reply channel it runs the retry path
\* once: the delivery goes from no retry state to scheduled or exhausted,
\* and the retry path is not entered for it again.
C17_PublishFailurePerChannel ==
    [][/\ \A k \in NewlyFailed :
             IF proc = "request"
             THEN /\ hist'[k].retry = "none"
                  /\ queues' = queues
                  /\ ack_queue' = ack_queue
                  /\ \A t \in timers' : ForwardKey(t) # k
             ELSE /\ hist[k].retry = "none"
                  /\ hist'[k].retry \in {"scheduled", "exhausted"}
                  /\ Cardinality({t \in timers' : ForwardKey(t) = k /\ t.kind = "retry"})
                       = (IF hist'[k].retry = "scheduled" THEN 1 ELSE 0)
                  /\ \A t \in timers' : ForwardKey(t) = k => t.kind = "retry"
       /\ \A k \in Deliveries :
             hist[k].fate = "failed" =>
                /\ hist'[k].fate = "failed"
                /\ \/ hist'[k].retry = hist[k].retry
                   \/ /\ hist[k].retry = "scheduled"
                      /\ hist'[k].retry \in {"published", "publish_failed"}]_vars

\* a forward has failed on the request channel and the loop runs on
C17_Witness ==
    /\ proc = "request"
    /\ pc = "loop"
    /\ \E k \in Deliveries : hist[k].fate = "failed" /\ k[2] \in UnackedTags

\* timer t has run in this step
HasRun(t) ==
    IF t.kind = "forward"
    THEN hist[ForwardKey(t)].fate = "waiting"
            /\ hist'[ForwardKey(t)].fate \in {"forwarded", "failed"}
    ELSE hist[ForwardKey(t)].retry = "scheduled"
            /\ hist'[ForwardKey(t)].retry \in {"published", "publish_failed"}

\* the tags of the open session that wait on the ack queue
TicketsWaiting == {i \in 1..Len(ack_queue) : ack_queue[i].from_sess = sess}

\* C18: after a shutdown signal the loop takes no new broker events, every
\* task already scheduled runs (no timer goes away without having run), and
\* when the consuming session is closed no acknowledgment of a forward that
\* succeeded is still waiting to be issued.
C18_ShutdownDrainsTasksAndAcks ==
    [][/\ \A t \in timers \ timers' : HasRun(t)
       /\ (pc \in {"stopped", "terminated"} => Len(buffer') <= Len(buffer)
                                               /\ DOMAIN hist' = DOMAIN hist)
       /\ (pc \in {"loop", "stopped"} /\ pc' \in {"stopped", "terminated"}
             /\ (unacked' = <<>> /\ unacked # <<>>))
          => TicketsWaiting = {}]_vars

\* the section asks for a uniform delay in [a, b], a range inside the
\* channel's own, with no jitter and no drops
UniformNoJitterNoDrop(p) ==
    /\ p.distribution.type = "uniform"
    /\ p.jitter = 0
    /\ p.drop_probability = 0
    /\ p.min_delay <= p.distribution.parameters.min_delay
    /\ p.distribution.parameters.min_delay <= p.distribution.parameters.max_delay
    /\ p.distribution.parameters.max_delay <= p.max_delay

\* C19: with distribution uniform{min_delay = a, max_delay = b}, jitter 0
\* and drop probability 0, no packet is dropped and the delay of every
\* packet lies in [a, b], on both channels.
C19_UniformDelayWithinDistributionRange ==
    [][UniformNoJitterNoDrop(Section(channel_yml')) =>
          /\ NewlyDropped = {}
          /\ \A t \in NewForwardTimers :
                /\ Section(channel_yml').distribution.parameters.min_delay <= t.delay
                /\ t.delay <= Section(channel_yml').distribution.parameters.max_delay]_vars

\* the deliveries that meet the drop gate in this step
Gated == {k \in Deliveries : hist[k].draw = Absent /\ hist'[k].draw # Absent}

\* C20: a packet is dropped exactly when its draw u satisfies
\* u < drop_probability of the section read for it; with probability 0
\* nothing is dropped and with probability 1 everything is, on both channels.
C20_DroppedIffDrawBelowProbability ==
    [][\A k \in Gated :
          /\ hist'[k].fate \in {"dropped", "waiting"}
          /\ hist'[k].fate = "dropped"
                <=> hist'[k].draw < Section(channel_yml').drop_probability
          /\ Section(channel_yml').drop_probability = 0 => hist'[k].fate = "waiting"
          /\ Section(channel_yml').drop_probability = 100 => hist'[k].fate = "dropped"
          /\ hist'[k].fate = "waiting" <=> \E t \in NewForwardTimers : ForwardKey(t) = k]_vars

\* one packet met the gate with a draw just below a probability of 1/2 and
\* was dropped, another with a draw equal to it and was passed on
C20_Witness ==
    \E k1 \in Deliveries, k2 \in Deliveries :
        /\ hist[k1].fate = "dropped" /\ hist[k1].draw = 0
        /\ hist[k2].fate = "waiting" /\ hist[k2].draw = 50
        /\ Section(channel_yml).drop_probability = 50

\* the message a timer's delivery was received with
Received(t) == hist[ForwardKey(t)].msg

\* the timers that ran in this step and published
ForwardedNow ==
    {t \in timers \ timers' :
        t.kind = "forward" /\ hist'[ForwardKey(t)].fate = "forwarded"}
ResubmittedNow ==
    {t \in timers \ timers' :
        t.kind = "retry" /\ hist'[ForwardKey(t)].retry = "published"}

\* the last message of queue q after the step, when the step appended one
Appended(q) ==
    IF Len(queues'[q]) = Len(queues[q]) + 1 /\ SubSeq(queues'[q], 1, Len(queues[q])) = queues[q]
    THEN {queues'[q][Len(queues'[q])]} ELSE {}

\* C21: a forwarded packet is published with exactly the body and exactly
\* the headers it was received with, whatever bit_flip the channel section
\* holds; a resubmitted packet has the same body and the same headers
\* except that the retry counter is the received one plus 1.
C21_PublishedAsReceived ==
    [][/\ \A t \in ForwardedNow :
             \E m \in Appended(OutboundQueue(proc)) :
                /\ m.body = Received(t).body
                /\ m.headers = Received(t).headers
                /\ DOMAIN m = {"body", "headers"}
       /\ \A t \in ResubmittedNow :
             \E m \in Appended(InboundQueue(proc)) :
                /\ m.body = Received(t).body
                /\ m.headers.rest = Received(t).headers.rest
                /\ ~m.headers.none
                /\ m.headers.retries = GetRetries(Received(t).headers) + 1]_vars

\* a packet that came with headers of its own has been forwarded and the
\* resubmitted copy of another one waits in the inbound queue
C21_Witness ==
    /\ Section(channel_yml).bit_flip # 0
    /\ \E k \in Deliveries :
          /\ hist[k].fate = "forwarded"
          /\ ~hist[k].msg.headers.none
          /\ hist[k].msg.headers.rest # 0
          /\ \E i \in 1..Len(queues[OutboundQueue(proc)]) :
                queues[OutboundQueue(proc)][i]
                    = Message(hist[k].msg.body, hist[k].msg.headers)
    /\ \E k \in Deliveries :
          /\ hist[k].retry = "published"
          /\ hist[k].msg.headers.rest # 0
          /\ \E i \in 1..Len(queues[REPLY_QUEUE]) :
                queues[REPLY_QUEUE][i] = ExpectedCopy(k)

\* the callback of the delivery at the head of the buffer runs in this step
\* and reads channel.yml
ReadsFile ==
    /\ buffer # <<>>
    /\ Key(sess, Head(buffer).tag) \in DOMAIN hist
    /\ hist[Key(sess, Head(buffer).tag)].fate = "buffered"
    /\ hist'[Key(sess, Head(buffer).tag)].fate # "buffered"

\* a call of update_channel_yaml_safe has loaded the file and not returned
UpdateInProgress == upd.pc \in {"write", "truncate"}

\* C22: a processor that reads channel.yml while an update is in progress
\* obtains the complete old document or the complete new one, never a
\* mixture, a truncated document or an unparseable one.
C22_ReaderSeesOldOrNewDocument ==
    [][(ReadsFile /\ UpdateInProgress)
          => channel_yml' \in {upd.before, Updated(upd.before, upd.payload)}]_vars

\* a call of update_channel_yaml_safe returns in this step, having written
UpdateReturns == upd.pc = "truncate" /\ upd'.pc = "idle"

\* the keys of a channel payload that name the field k of a channel section
\* (k a scalar of the section or one of the distribution parameters)
NamedBy(k) ==
    IF k = "min_delay" THEN {"min_delay_ms"}
    ELSE IF k = "max_delay" THEN {"max_delay_ms"}
    ELSE IF k = "jitter" THEN {"jitter_ms"}
    ELSE IF k = "lambda" THEN {"lambda", "exp_lambda"}
    ELSE IF k = "parameters.min_delay" THEN {"uni_min_ms"}
    ELSE IF k = "parameters.max_delay" THEN {"uni_max_ms"}
    ELSE IF k = "type" THEN {"distribution"}
    ELSE IF k \in {"bit_flip", "drop_probability"} THEN {k}
    ELSE {}

\* the field k of a channel section
Field(s, k) ==
    IF k = "min_delay" THEN s.min_delay
    ELSE IF k = "max_delay" THEN s.max_delay
    ELSE IF k = "jitter" THEN s.jitter
    ELSE IF k = "bit_flip" THEN s.bit_flip
    ELSE IF k = "drop_probability" THEN s.drop_probability
    ELSE IF k = "type" THEN s.distribution.type
    ELSE IF k = "lambda" THEN s.distribution.parameters.lambda
    ELSE IF k = "mu" THEN s.distribution.parameters.mu
    ELSE IF k = "sigma" THEN s.distribution.parameters.sigma
    ELSE IF k = "parameters.min_delay" THEN s.distribution.parameters.min_delay
    ELSE s.distribution.parameters.max_delay

\* section `new` differs from section `old` only in fields the channel
\* payload ch names
OnlyNamedFieldsChanged(old, new, ch) ==
    \A i \in 1..Len(ChannelFields) :
        LET k == ChannelFields[i]
        IN  NamedBy(k) \cap ch.given = {} => Field(new, k) = Field(old, k)

\* C23: an update changes only the fields its payload names for
\* request_channel and reply_channel: the other top-level keys (the retry
\* section), the channel fields the payload does not have and the
\* distribution parameters it does not supply keep their values, and the
\* scalars it names take the payload's values; a call that finds a file
\* whose root is not a mapping (or that does not load) writes nothing.
C23_UpdateChangesOnlyNamedFields ==
    [][/\ UpdateReturns =>
            LET old == upd.before
                new == Load(file')
            IN  /\ new.ok
                /\ new.retry = old.retry
                /\ OnlyNamedFieldsChanged(old.request_channel, new.request_channel,
                                          upd.payload.request_channel)
                /\ OnlyNamedFieldsChanged(old.reply_channel, new.reply_channel,
                                          upd.payload.reply_channel)
                /\ "min_delay_ms" \in upd.payload.request_channel.given
                      => new.request_channel.min_delay
                            = upd.payload.request_channel.min_delay_ms
                /\ "drop_probability" \in upd.payload.reply_channel.given
                      => new.reply_channel.drop_probability
                            = upd.payload.reply_channel.drop_probability
       /\ (upd.pc = "idle" /\ upd' # upd /\ ~Load(file).ok)
             => file' = file /\ upd'.pc = "idle"
       /\ upd.pc = "idle" /\ upd'.pc = "idle" => file' = file]_vars

\* an update of the request channel's delays has returned: the retry
\* section and the reply channel are as they were, and so are the request
\* channel's drop probability and distribution
C23_Witness ==
    /\ upd.pc = "idle"
    /\ upd.n = 1
    /\ Load(file).ok
    /\ Load(file).retry = 5
    /\ Load(file).request_channel.min_delay = 5
    /\ Load(file).request_channel.max_delay = 100
    /\ Load(file).request_channel.drop_probability = GoodDoc.request_channel.drop_probability
    /\ Load(file).request_channel.distribution = GoodDoc.request_channel.distribution
    /\ Load(file).reply_channel = GoodDoc.reply_channel

\* the retry timers waiting
AllRetryTimers == {t \in timers : t.kind = "retry"}

C26_BackoffDoublesWithoutJitter ==
    retry_config.jitter = 0 =>
        /\ \A r, r2 \in 0..(retry_config.max_retries - 1), g \in Fractions :
              /\ r < r2 => RetryDelay(r, g) <= RetryDelay(r2, g)
              /\ r2 = r + 1 => RetryDelay(r2, g) = 2 * RetryDelay(r, g)
        /\ \A t \in AllRetryTimers :
              /\ t.delay = (2 ^ t.retries) * retry_config.base_delay
              /\ t.retries < retry_config.max_retries

\* without jitter, a packet that has been resubmitted once waits for its
\* second resubmission twice as long as it did for the first
C26_Witness ==
    /\ retry_config.jitter = 0
    /\ retry_config.base_delay > 0
    /\ \E t \in AllRetryTimers :
          /\ t.retries = 1
          /\ t.delay = 2 * retry_config.base_delay
          /\ t.delay = 2 * RetryDelay(0, 0)

\* a callback is dispatched in this step: process_data_events has been
\* called and hands over the delivery at the head of the buffer
Dispatches ==
    /\ buffer # <<>>
    /\ Key(sess, Head(buffer).tag) \in DOMAIN hist
    /\ hist[Key(sess, Head(buffer).tag)].fate = "buffered"
    /\ Key(sess, Head(buffer).tag) \in DOMAIN hist'
    /\ hist'[Key(sess, Head(buffer).tag)].fate # "buffered"

\* the broker settles a delivery in this step (basic_ack took effect)
Settles ==
    /\ chan_open'
    /\ sess' = sess
    /\ Len(unacked') < Len(unacked)

\* C27: the consume loop takes the tickets from the ack queue in the
\* order in which they were put (the ticket it passes to basic_ack is the
\* oldest one, and tickets only join at the end), and it polls the broker
\* only when the ack queue is empty, so every ticket queued has been taken
\* before the next callback is dispatched.
C27_AcksInQueueOrderBeforePoll ==
    [][/\ Dispatches => ack_queue = <<>> /\ ack_queue' = <<>>
       /\ ack_queue' # ack_queue =>
             \/ ack_queue # <<>> /\ ack_queue' = Tail(ack_queue)
             \/ \E t \in timers \ timers' :
                   ack_queue' = Append(ack_queue, Ticket(t.tag, t.sess))
       /\ Settles =>
             /\ ack_queue # <<>>
             /\ ack_queue' = Tail(ack_queue)
             /\ unacked' = RemoveTag(Head(ack_queue).tag)]_vars

\* one delivery has been acknowledged, two tickets wait in the ack queue in
\* the order of their forwards, and a delivery waits in the buffer for the
\* poll that follows them
C27_Witness ==
    /\ pc = "loop"
    /\ buffer # <<>>
    /\ Len(ack_queue) >= 2
    /\ ack_queue[1] # ack_queue[2]
    /\ \E k \in Deliveries : hist[k].acks > 0

KnownTypes == {"exponential", "normal", "uniform"}

\* the delays the fallback can give: a uniform draw over [0, max_delay],
\* jitter added, clamped to [min_delay, max_delay]
FallbackDelays(p) ==
    {Max(p.min_delay,
         Min(Uniform(0, p.max_delay, f) + Uniform(-p.jitter, p.jitter, g), p.max_delay)) :
        f \in Fractions, g \in Fractions}

\* C28: when the distribution type is none of exponential, normal and
\* uniform (unknown or unset), no error is raised: a packet that passes the
\* drop gate gets a forward timer whose delay is a uniform draw over
\* [0, max_delay] plus jitter, clamped to [min_delay, max_delay].
C28_UnknownOrUnsetTypeFallsBack ==
    [][(Dispatches /\ Section(channel_yml').distribution.type \notin KnownTypes)
          => LET k == Key(sess, Head(buffer).tag)
             IN  /\ hist'[k].fate \in {"dropped", "waiting"}
                 /\ hist'[k].fate = "waiting" =>
                       \E t \in NewForwardTimers :
                          /\ ForwardKey(t) = k
                          /\ t.delay \in FallbackDelays(Section(channel_yml'))]_vars

\* C28 for a type that is there and is not one the code knows
C28_UnknownTypeFallsBack ==
    [][(Dispatches /\ Section(channel_yml').distribution.type \notin KnownTypes \cup {Unset})
          => LET k == Key(sess, Head(buffer).tag)
             IN  /\ hist'[k].fate \in {"dropped", "waiting"}
                 /\ hist'[k].fate = "waiting" =>
                       \E t \in NewForwardTimers :
                          /\ ForwardKey(t) = k
                          /\ t.delay \in FallbackDelays(Section(channel_yml'))]_vars

\* C29: the two delay models are equivalent: for the channel parameters in
\* force and the same random draws, RequestProcessor._calculate_delay and
\* ResponseProcessor._calculate_delay return the same delay, so the delay
\* of every forward timer started is one both return for the same draws.
C29_DelayModelsEquivalent ==
    [][\A t \in NewForwardTimers :
          LET p == Section(channel_yml')
          IN  \E raw \in RawDraws(p.distribution.type), f \in Fractions, g \in Fractions :
                 /\ t.delay = request_calculate_delay(p, raw, f, g)
                 /\ t.delay = response_calculate_delay(p, raw, f, g)]_vars

\* the forward of timer t can run now
ForwardCanRun(t) == ENABLED (forward_packet(t) \/ forward_message(t))

\* C30: forwarding order is not tied to arrival order: several forwards
\* can be pending together, and each pending forward can run next whatever
\* the tags and delays of the others, so a packet delivered later can be
\* published and acknowledged before one delivered earlier.
C30_AnyPendingForwardCanRun ==
    \A t \in timers : t.kind = "forward" => ForwardCanRun(t)

\* packet A was delivered first and still waits for its timer; packet B
\* was delivered after it under a document whose max_delay is below A's
\* delay, so B drew the shorter delay; B has been published to the outbound
\* queue and acknowledged
C30_Witness ==
    \E a \in Deliveries, b \in Deliveries :
        /\ Cardinality(Deliveries) = 2
        /\ a[1] = b[1] /\ a[2] < b[2]
        /\ hist[a].fate = "waiting"
        /\ \E t \in timers :
              /\ t.kind = "forward"
              /\ ForwardKey(t) = a
              /\ t.delay > Section(channel_yml).max_delay
        /\ hist[b].fate = "forwarded"
        /\ hist[b].acks = 1
        /\ \E i \in 1..Len(queues[OutboundQueue(proc)]) :
              queues[OutboundQueue(proc)][i].body = hist[b].msg.body
        /\ \A i \in 1..Len(queues[OutboundQueue(proc)]) :
              queues[OutboundQueue(proc)][i].body # hist[a].msg.body

\* the consume loop takes the oldest ticket and basic_ack reaches the broker
\* on the open channel in this step
BasicAckIssued ==
    /\ pc = "loop"
    /\ chan_open
    /\ ack_queue # <<>>
    /\ ack_queue' = Tail(ack_queue)
    /\ pc' = pc
    /\ sess' = sess

\* C31: on the reply channel every ticket the consume loop takes from the
\* ack queue and passes to basic_ack was put for a delivery of the session
\* that is open at that moment, never for one of a session a reconnect has
\* closed.
C31_AckedTagBelongsToOpenSession ==
    [][(proc = "reply" /\ BasicAckIssued) => Head(ack_queue).from_sess = sess]_vars

\* the deliveries of the consuming session whose packet was dropped at the
\* gate or whose forward failed (retries exhausted included)
LostOnOpenSession ==
    {k \in Deliveries : /\ k[1] = sess
                         /\ hist[k].fate \in {"dropped", "failed"}}

\* the consuming session has not been closed
SessionOpen == chan_open /\ pc \in {"start", "loop"}

\* basic_qos(prefetch_count=50): the broker holds back further deliveries
PrefetchRespected == Len(unacked) <= prefetch_count

\* no path of the callback or of the retry path settles a lost delivery
LostKeepsCounting ==
    SessionOpen => \A k \in LostOnOpenSession : k[2] \in UnackedTags

\* the broker's count changes by a delivery, by a basic_ack or by the
\* closing of the session, and by nothing else
LeavesOnlyByAckOrClose ==
    unacked' # unacked =>
        \/ \E n \in DOMAIN unacked' : unacked' = Append(unacked, unacked'[n])
        \/ BasicAckIssued /\ unacked' = RemoveTag(Head(ack_queue).tag)
        \/ unacked' = <<>> /\ (~chan_open' \/ sess' # sess)

\* C32: on the reply channel the deliveries not yet acknowledged on the
\* consuming session never number more than the prefetch limit; a delivery
\* leaves that count only through a basic_ack or the closing of the
\* session; and a delivery that was dropped or whose forward failed stays
\* in the count for as long as the session is open.
C32_UnackedBoundedUntilAckOrClose ==
    /\ [](proc = "reply" => PrefetchRespected /\ LostKeepsCounting)
    /\ [][proc = "reply" => LeavesOnlyByAckOrClose]_vars

\* the part of C32 that does not speak of lost deliveries
C32_PrefetchAndLeaving ==
    /\ [](proc = "reply" => PrefetchRespected)
    /\ [][proc = "reply" => LeavesOnlyByAckOrClose]_vars

\* the forward timers of delivery k that have not run yet
ForwardTimers(k) == {t \in timers : t.kind = "forward" /\ ForwardKey(t) = k}

\* how many messages with body b the outbound queue has been sent
PublishedCount(b) ==
    Cardinality({i \in 1..Len(queues[OutboundQueue(proc)]) :
                    queues[OutboundQueue(proc)][i].body = b})

\* the consuming session is the first one and has never been closed
NeverClosed == sess = 1 /\ SessionOpen

\* C33: a delivery that has passed the drop gate has exactly one forward
\* timer until that timer runs, and none afterwards; a delivery is
\* published to the outbound queue at most once, and only by its timer; and
\* while the consuming session has not been closed no packet is in the
\* outbound queue more than once.
C33_OneTimerOnePublish ==
    /\ \A k \in Deliveries :
          /\ Cardinality(ForwardTimers(k)) =
                (IF hist[k].fate = "waiting" THEN 1 ELSE 0)
          /\ hist[k].tickets = (IF hist[k].fate = "forwarded" THEN 1 ELSE 0)
    /\ \A b \in 1..MaxPackets :
          /\ PublishedCount(b) =
                Cardinality({k \in Deliveries : /\ hist[k].fate = "forwarded"
                                                 /\ hist[k].msg.body = b})
          /\ NeverClosed => PublishedCount(b) <= 1

\* on a session never closed one packet has been published once and
\* acknowledged; on the request channel a second one waits for its only
\* timer, and on the reply channel a packet whose forward failed has been
\* resubmitted and its copy published once
C33_Witness ==
    /\ NeverClosed
    /\ \E k \in Deliveries :
          /\ hist[k].fate = "forwarded"
          /\ hist[k].acks = 1
          /\ PublishedCount(hist[k].msg.body) = 1
    /\ IF proc = "request"
       THEN \E k \in Deliveries :
               /\ hist[k].fate = "waiting"
               /\ Cardinality(ForwardTimers(k)) = 1
       ELSE \E k \in Deliveries :
               /\ hist[k].retry = "published"
               /\ PublishedCount(hist[k].msg.body) = 1

\* the deliveries the retry path has resubmitted
ResubmittedDeliveries == {k \in Deliveries : hist[k].retry = "published"}

\* the broker still holds the message of delivery k: unacknowledged on the
\* open session, or, once k's session has been closed, back in the inbound
\* queue or delivered again on a later session
BrokerHoldsOriginal(k) ==
    IF k[1] = sess /\ SessionOpen
    THEN \E i \in 1..Len(unacked) :
            unacked[i].tag = k[2] /\ unacked[i].msg = hist[k].msg
    ELSE \/ \E i \in 1..Len(queues[REPLY_QUEUE]) :
              queues[REPLY_QUEUE][i] = hist[k].msg
         \/ \E j \in Deliveries : j[1] > k[1] /\ hist[j].msg = hist[k].msg

\* C34: on the reply channel a delivery the retry path has resubmitted has
\* no ticket and no acknowledgment: the broker still holds its message with
\* the old retry counter beside the copy, unacknowledged while the session
\* is open and requeued for delivery once the session has been closed.
C34_ResubmittedOriginalStaysUnacked ==
    proc = "reply" =>
        \A k \in ResubmittedDeliveries :
            /\ hist[k].tickets = 0
            /\ hist[k].acks = 0
            /\ BrokerHoldsOriginal(k)

\* the part of C34 about the retry path itself: it puts no ticket for the
\* delivery, and the step that resubmits leaves the ack queue and the
\* broker's unacknowledged deliveries as they are
C34_RetryPathPutsNoTicket ==
    /\ [](\A k \in ResubmittedDeliveries : hist[k].tickets = 0)
    /\ [][ResubmittedDeliveries' # ResubmittedDeliveries =>
              UNCHANGED <<ack_queue, unacked>>]_vars

\* the deliveries whose resubmission publish raised
ResubmissionFailed == {k \in Deliveries : hist[k].retry = "publish_failed"}

\* C35: when the publish of a resubmission raises, the error is only
\* logged: the step starts no timer and publishes nothing, puts no ticket
\* and leaves the consume loop and its session as they are; afterwards the
\* delivery has no resubmission pending, no copy of it with an advanced
\* retry counter exists, and it has no ticket.
C35_FailedResubmissionOnlyLogged ==
    /\ [](\A k \in ResubmissionFailed :
            /\ RetryTimers(k) = {}
            /\ ForwardTimers(k) = {}
            /\ hist[k].tickets = 0
            /\ CopiesOf(k) = 0
            /\ \A j \in Deliveries : hist[j].msg.origin # k)
    /\ [][ResubmissionFailed' # ResubmissionFailed =>
            /\ \E t \in timers : t.kind = "retry" /\ timers' = timers \ {t}
            /\ UNCHANGED <<queues, ack_queue, unacked, buffer, pc, sess,
                           chan_open, next_tag>>]_vars

\* the publish of a resubmission has raised and the consume loop runs on
\* with its session open
C35_Witness ==
    /\ ResubmissionFailed # {}
    /\ pc = "loop"
    /\ chan_open
    /\ \E k \in ResubmissionFailed : k[1] = sess /\ k[2] \in UnackedTags

\* the retry timers started in this step
NewRetryTimers == {t \in timers' \ timers : t.kind = "retry"}

\* the deliveries whose retries are found exhausted in this step
NewlyExhausted ==
    {k \in Deliveries : hist[k].retry # "exhausted" /\ hist'[k].retry = "exhausted"}

\* C36: the retry parameters are those of the retry section channel.yml
\* had when the response processor was constructed, or 5, 1000 and 500 when
\* it had none; no step changes them, the reload of channel.yml for a
\* packet included; and every later retry takes its limit and its delay
\* from them, whatever retry section the document read last has.
C36_RetryConfigFixedAtConstruction ==
    /\ retry_config = (IF channel_yml.retry = NoRetrySection
                       THEN [max_retries |-> 5, base_delay |-> 1000, jitter |-> 500]
                       ELSE channel_yml.retry)
    /\ [][/\ retry_config' = retry_config
          /\ \A t \in NewRetryTimers :
                /\ t.retries < retry_config.max_retries
                /\ \E g \in Fractions :
                      t.delay = (2 ^ t.retries) * retry_config.base_delay
                                  + Uniform(-retry_config.jitter, retry_config.jitter, g)
          /\ \A k \in NewlyExhausted :
                ReceivedRetries(k) >= retry_config.max_retries]_vars

\* a retry has been scheduled for the only packet delivered so far, whose
\* callback found a retry section other than the one the processor was
\* constructed with
C36_Witness ==
    /\ Cardinality(Deliveries) = 1
    /\ ConstructedRetryConfig(channel_yml) # retry_config
    /\ channel_yml.retry # NoRetrySection
    /\ \E t \in timers :
          /\ t.kind = "retry"
          /\ \A g \in Fractions :
                t.delay # (2 ^ t.retries) * channel_yml.retry.base_delay
                            + Uniform(-channel_yml.retry.jitter, channel_yml.retry.jitter, g)

\* the consume loop runs and its next pass finds the ack queue empty: it
\* calls process_data_events
PollDue == pc = "loop" /\ ack_queue = <<>>

\* C37: the consume loop never stays on the ack queue: in every execution
\* in which the connection to the broker stays up the loop comes again and
\* again to a pass that finds the ack queue empty and polls the broker.
C37_BrokerPolledInfinitelyOften == []<>PollDue

\* the same for the executions in which no callback raises
C37_PolledUnlessCallbackRaises ==
    []<>PollDue \/ <>(\E k \in Deliveries : hist[k].fate = "config_error")

\* the messages queue q holds
QueueMessages(q) == {queues[q][i] : i \in 1..Len(queues[q])}

\* C38: the two channels are isolated: a processor takes packets only from
\* its own inbound queue, publishes forwards only to its own outbound queue
\* and (the response processor) resubmissions only to network_reply, and
\* works with its own section of channel.yml only: the queues of the other
\* channel stay as they are, and whatever the other section holds, no
\* packet is dropped and every delay is the one of the own section.
C38_ChannelsIsolated ==
    /\ \A q \in OtherQueues : queues[q] = OtherBatch
    /\ \A k \in Deliveries :
          /\ hist[k].msg.body \in 1..MaxPackets
          /\ hist[k].fate \notin {"dropped", "config_error"}
    /\ \A t \in timers :
          /\ t.msg.body \in 1..MaxPackets
          /\ t.kind = "forward" => t.delay = OwnSection.max_delay
    /\ \A m \in QueueMessages(OutboundQueue(proc)) :
          \E k \in Deliveries : hist[k].fate = "forwarded" /\ hist[k].msg.body = m.body
    /\ \A m \in QueueMessages(InboundQueue(proc)) :
          \/ m.origin[1] = 0 /\ m.body \in 1..MaxPackets
          \/ proc = "reply" /\ m.origin \in Deliveries /\ m = ExpectedCopy(m.origin)

\* a packet has been forwarded and acknowledged after its callback found a
\* section of the other channel that drops everything; on the reply channel
\* a resubmitted copy waits in network_reply besides
C38_Witness ==
    /\ \E o \in OtherSections :
          /\ o.drop_probability = 100
          /\ o \in {channel_yml.request_channel, channel_yml.reply_channel}
    /\ \E k \in Deliveries :
          /\ hist[k].fate = "forwarded"
          /\ hist[k].acks = 1
          /\ \E m \in QueueMessages(OutboundQueue(proc)) : m.body = hist[k].msg.body
    /\ \A q \in OtherQueues : queues[q] = OtherBatch
    /\ proc = "reply" =>
          \E m \in QueueMessages(REPLY_QUEUE) : m.origin \in Deliveries

\* the messages process_message has fetched and is done with
Processed == {n \in DOMAIN tunnel.log : n # tunnel.method}

\* C39: TunnelManager.process_message settles every message it has
\* fetched exactly once: a message is acknowledged only after it has been
\* written to the TUN device, a message that is no ICMP echo request is
\* negatively acknowledged without requeue, and no message is both
\* acknowledged and negatively acknowledged.
C39_FetchedSettledExactlyOnce ==
    \A n \in DOMAIN tunnel.log :
        LET l == tunnel.log[n]
        IN  /\ l.acks > 0 => l.written
            /\ l.acks + l.nacks <= 1
            /\ n \in Processed =>
                  /\ l.acks + l.nacks = 1
                  /\ l.body # "echo_request" => l.nacks = 1 /\ ~l.requeue

\* the part of C39 about what comes before the acknowledgment
C39_SettledOnceUpToAck ==
    \A n \in DOMAIN tunnel.log :
        LET l == tunnel.log[n]
        IN  /\ l.acks > 0 => l.written
            /\ l.acks <= 1
            /\ l.body # "echo_request" =>
                  /\ l.acks = 0
                  /\ n \in Processed => l.nacks = 1 /\ ~l.requeue
            /\ (l.nacks > 0 /\ l.acks = 0) => l.nacks = 1

\* the clause of C39 about errors after the acknowledgment
C39_NeverAckedAndNacked ==
    \A n \in DOMAIN tunnel.log : tunnel.log[n].acks = 0 \/ tunnel.log[n].nacks = 0

====
